---- MODULE Spec2Model ----
(***************************************************************************)
(* Model of the jail construction tool (linkdata/jail): the shadow         *)
(* filesystem of sfs.py (class Stat), the command-line parser of cli.py    *)
(* (parse, Handler.command) and the command loop and handlers of jail.py   *)
(* (class Jail, class JailConfig).                                         *)
(*                                                                         *)
(* A path string is the sequence its split('/') yields: '/a/b' is          *)
(* <<"", "a", "b">>, '/' is <<"", "">>, '' is <<"">>, 'a/b' is <<"a","b">>. *)
(* A physical path (a key of the disk) is the sequence of the names from   *)
(* the root: <<"a", "b">>; the root directory is <<>>.                     *)
(* st_mode is kept as the pair (fmt, perm) = (S_IFMT, S_IMODE).            *)
(* Times are in quarter seconds, so the 0.5 s epsilon is 2.                *)
(***************************************************************************)
EXTENDS Integers, Sequences, FiniteSets, TLC

VARIABLES
    cfg,        \* JailConfig fields: test, verbose, user, group, uid, gid, writepath, ...
    indata,     \* cli.parse: the tokens still to be handled
    argindex,   \* cli.parse: number of positional arguments seen
    output,     \* cli.parse: the queued Commands (cli_list of Jail.parse)
    pc,         \* position of the process: "parse", "loop", "all_done", "done", "raised"
    idx,        \* Jail.parse: index of the next queued command
    opt_try,    \* Jail.opt_try
    nodes,      \* the Stat objects, by identity (index); 1 is Jail._srcroot
    disk,       \* the real filesystem: physical path -> lstat record
    jail,       \* Jail fields: _jailhome, _src_done, ldlinux_so, caches, flags
    host,       \* the host beside its files: programs, loader output, mount table
    hist        \* observation: syscalls issued, commands printed, lstat calls, events

vars == <<cfg, indata, argindex, output, pc, idx, opt_try, nodes, disk, jail, host, hist>>

----------------------------------------------------------------------------
(* Python values *)

None == "None"
NONE == 0            \* the None of a node reference
NoLink == <<>>       \* the None of Stat._link (a path string is never empty)
NoPath == <<None>>   \* the None passed as a path
NoStat == [fmt |-> "enoent"]   \* the None os_lstat returns
NoTime == -1         \* the None of an mtime argument
NoBytes == -1        \* the None write_call returns when the call is skipped

Max(a, b) == IF a >= b THEN a ELSE b
Abs(x) == IF x < 0 THEN -x ELSE x

RECURSIVE SeqToSet(_)
SeqToSet(s) == IF s = <<>> THEN {} ELSE {Head(s)} \cup SeqToSet(Tail(s))

Last(s) == s[Len(s)]
Front(s) == SubSeq(s, 1, Len(s) - 1)

----------------------------------------------------------------------------
(* Path strings (os.path) *)

\* str.startswith('/')
IsAbs(p) == Len(p) > 1 /\ p[1] = ""

\* the path string of a physical path
PathOf(phys) == IF phys = <<>> THEN <<"", "">> ELSE <<"">> \o phys

RECURSIVE StripSlashes(_)
StripSlashes(p) ==
    IF p # <<>> /\ Last(p) = "" THEN StripSlashes(Front(p)) ELSE p

\* os.path.join(a, b)
join(a, b) ==
    IF IsAbs(b) THEN b
    ELSE IF Last(a) = "" THEN Front(a) \o b
    ELSE a \o b

\* os.path.dirname(p)
dirname(p) ==
    IF Len(p) = 1 THEN <<"">>
    ELSE LET h == StripSlashes(Front(p))
         IN  IF h = <<>> THEN <<"", "">> ELSE h

\* os.path.basename(p): the tail of os.path.split
basename(p) == Last(p)

\* os.path.normpath of an absolute path, as a physical path
RECURSIVE NormFrom(_, _)
NormFrom(acc, segs) ==
    IF segs = <<>> THEN acc
    ELSE LET s == Head(segs)
         IN  IF s = "" \/ s = "." THEN NormFrom(acc, Tail(segs))
             ELSE IF s = ".."
                  THEN NormFrom(IF acc = <<>> THEN acc ELSE Front(acc), Tail(segs))
                  ELSE NormFrom(Append(acc, s), Tail(segs))

\* the current directory of the process
Cwd == <<>>

\* os.path.abspath(p), as a path string
abspath(p) == PathOf(NormFrom(IF IsAbs(p) THEN <<>> ELSE Cwd, p))

\* the physical path an absolute, normalized path string names
PhysOf(p) == NormFrom(<<>>, p)

\* a.startswith(b) for strings given as sequences of characters-free names:
\* b is a prefix of a component-wise, the last component of b being a
\* string prefix of the matching component of a is not modelled (names are
\* atoms), so this is the prefix test on whole components.
IsPrefix(b, a) == Len(b) <= Len(a) /\ SubSeq(a, 1, Len(b)) = b

----------------------------------------------------------------------------
(* The real filesystem, as the kernel sees it *)

\* the identity the process runs as (os.geteuid(), os.getegid()) and time.time()
EUid == 0
EGid == 0
Now == 40

DiskRec(fmt, perm, uid, gid, size, mtime, link, rdev) ==
    [fmt |-> fmt, perm |-> perm, uid |-> uid, gid |-> gid, size |-> size,
     mtime |-> mtime, link |-> link, rdev |-> rdev, flags |-> 0, ino |-> 1]

\* number of characters of a path string (len(target))
RECURSIVE StrLen(_)
StrLen(p) ==
    IF Len(p) = 1 THEN Len(p[1]) ELSE Len(p[1]) + 1 + StrLen(Tail(p))

\* The kernel's path walk from directory cur (a physical path) over the
\* segments segs. follow says whether a symlink in the final position is
\* followed. Returns the errno and the physical path reached; for ENOENT
\* on the final component the path is where the entry would be created.
RECURSIVE KWalk(_, _, _, _, _)
KWalk(d, cur, segs, follow, fuel) ==
    LET s == Head(segs)
        rest == Tail(segs)
        final == \A i \in 1..Len(rest) : rest[i] \in {"", "."}
        p == Append(cur, s)
        step == IF segs = <<>> THEN "end"
                ELSE IF s = "" \/ s = "." THEN "stay"
                ELSE IF s = ".." THEN "up"
                ELSE IF d[cur].fmt # "dir" THEN "ENOTDIR"
                ELSE IF p \notin DOMAIN d THEN (IF final THEN "ENOENT" ELSE "ENOENT_DIR")
                ELSE IF d[p].fmt = "link" /\ (~final \/ follow)
                     THEN (IF fuel = 0 THEN "ELOOP" ELSE "link")
                ELSE IF final THEN "found" ELSE "down"
    IN  CASE step = "end" -> [errno |-> "OK", path |-> cur]
          [] step = "stay" -> KWalk(d, cur, rest, follow, fuel)
          [] step = "up" -> KWalk(d, IF cur = <<>> THEN cur ELSE Front(cur), rest, follow, fuel)
          [] step = "ENOTDIR" -> [errno |-> step, path |-> cur]
          [] step \in {"ENOENT", "ENOENT_DIR", "ELOOP"} -> [errno |-> step, path |-> p]
          [] step = "link" -> KWalk(d, IF IsAbs(d[p].link) THEN <<>> ELSE cur,
                                    d[p].link \o rest, follow, fuel - 1)
          [] step = "found" -> [errno |-> "OK", path |-> p]
          [] step = "down" -> KWalk(d, p, rest, follow, fuel)

\* the kernel's limit on nested symlink resolution
MaxSymlinks == 8

\* the kernel's limit on the length of a path (PATH_MAX), in names
PathMax == 7

KLstat(d, phys) ==
    IF Len(phys) > PathMax THEN [errno |-> "ENAMETOOLONG", path |-> phys]
    ELSE KWalk(d, <<>>, phys, FALSE, MaxSymlinks)
KStat(d, phys) ==
    IF Len(phys) > PathMax THEN [errno |-> "ENAMETOOLONG", path |-> phys]
    ELSE KWalk(d, <<>>, phys, TRUE, MaxSymlinks)

\* the entries of directory phys on the disk
KChildren(d, phys) ==
    {Last(q) : q \in {q \in DOMAIN d : Len(q) = Len(phys) + 1 /\ Front(q) = phys}}

----------------------------------------------------------------------------
(* class Stat (sfs.py): the shadow nodes.                                  *)
(* Operations take and return a world w = [nodes, disk, hist, jail, err,   *)
(* ret, links]: err is the exception raised ("" when none), ret the value  *)
(* returned, links the set passed by reference through get/getdefault.     *)
(* Once err is set every later operation leaves the world as it is.        *)

RECURSIVE Call(_, _)

\* the value of a function of one argument: [x \in {e} |-> r] binds x to e in r
Only(f) == f[CHOOSE x \in DOMAIN f : TRUE]

EmptyFn == [x \in {} |-> NONE]

Raise(w, e) == IF w.err = "" THEN [w EXCEPT !.err = e] ELSE w
Ret(w, v) == IF w.err = "" THEN [w EXCEPT !.ret = v] ELSE w
Failed(w) == w.err # ""

\* a step of mount or execute is entered: its name, its argument and the
\* number of system calls and of printed commands before it
Step(w, name, arg) ==
    [w EXCEPT !.hist.steps = Append(@, [step |-> name, arg |-> arg,
                                        sys |-> Len(w.hist.sys), out |-> Len(w.hist.out)])]

\* the statements of a handler, run one after the other: the worlds are
\* worked out in the order given and the last one is the outcome
InOrder(ws) == ws[Len(ws)]

\* Stat.__nonzero__
Truthy(n) == n.ino # 0 \/ n.perm # 0

\* Stat.root
RECURSIVE root(_, _)
root(ns, id) == IF ns[id].parent = NONE THEN id ELSE root(ns, ns[id].parent)

\* Stat.path: the names from the topmost ancestor down, as a physical path.
\* A cleared node (name None, no parent) has no path: reading it raises
\* AttributeError (None.startswith).
RECURSIVE PathNames(_, _)
PathNames(ns, id) ==
    IF ns[id].parent = NONE
    THEN IF ns[id].name = "" THEN <<>> ELSE <<ns[id].name>>
    ELSE Append(PathNames(ns, ns[id].parent), ns[id].name)

HasPath(ns, id) == ns[id].name # None
path(ns, id) == PathNames(ns, id)

\* Stat.os_lstat: one lstat syscall; ENOENT gives None, any other errno raises
os_lstat(w, phys) ==
    IF Failed(w) THEN w
    ELSE Only([r \in {
                  KLstat(w.disk, phys)} |->
         LET w1 == [w EXCEPT !.hist.lst = Append(@, phys)]
         IN  IF r.errno = "OK" THEN Ret(w1, w1.disk[r.path])
             ELSE IF r.errno \in {"ENOENT", "ENOENT_DIR"} THEN Ret(w1, NoStat)
             ELSE Raise(w1, "OSError")])

\* Stat.refresh with st_data given: copy the stat fields, read the link
refresh(w, id, st) ==
    IF Failed(w) THEN w
    ELSE [w EXCEPT !.nodes[id] =
            [@ EXCEPT !.fmt = st.fmt, !.perm = st.perm, !.ino = st.ino,
                      !.uid = st.uid, !.gid = st.gid, !.size = st.size,
                      !.mtime = st.mtime, !.rdev = st.rdev, !.flags = st.flags,
                      !.link = IF st.fmt = "link" THEN st.link ELSE NoLink]]

\* Stat.__init__(parent, name, data): data is a format (an int) or an lstat
\* record; the new node registers itself in parent._children
Stat_init(w, parent, name, isfmt, data) ==
    IF Failed(w) THEN w
    ELSE IF parent # NONE /\ (name = "" \/ name \in DOMAIN w.nodes[parent].children)
    THEN Raise(w, "AssertionError")
    ELSE LET id == Len(w.nodes) + 1
             n == [parent |-> parent, name |-> name, children |-> EmptyFn,
                   link |-> NoLink, fmt |-> IF isfmt THEN data ELSE "none",
                   perm |-> 0, ino |-> 0, uid |-> EUid, gid |-> EGid, size |-> 0,
                   mtime |-> Now, rdev |-> 0, flags |-> 0]
             ns1 == Append(w.nodes, n)
             ns2 == IF parent = NONE THEN ns1
                    ELSE [ns1 EXCEPT ![parent].children = (name :> id) @@ @]
             w1 == [w EXCEPT !.nodes = ns2]
         IN  Ret(IF isfmt THEN w1 ELSE refresh(w1, id, data), id)

\* a Stat.clear that leaves the children with their parent
clear_keeping_children(w, id) ==
    IF Failed(w) THEN w
    ELSE [w EXCEPT !.nodes[id] =
            [@ EXCEPT !.children = EmptyFn, !.parent = NONE, !.link = NoLink,
                      !.name = None, !.fmt = "none", !.perm = 0, !.ino = 0, !.uid = 0,
                      !.gid = 0, !.size = 0, !.mtime = 0, !.rdev = 0, !.flags = 0]]

\* Stat.clear
clear(w, id) ==
    IF Failed(w) THEN w
    ELSE LET kids == {w.nodes[id].children[k] : k \in DOMAIN w.nodes[id].children}
         IN  [w EXCEPT !.nodes =
                [i \in DOMAIN w.nodes |->
                    IF i = id
                    THEN [w.nodes[i] EXCEPT !.children = EmptyFn, !.parent = NONE,
                              !.link = NoLink, !.name = None, !.fmt = "none",
                              !.perm = 0, !.ino = 0, !.uid = 0, !.gid = 0,
                              !.size = 0, !.mtime = 0, !.rdev = 0, !.flags = 0]
                    ELSE IF i \in kids THEN [w.nodes[i] EXCEPT !.parent = NONE]
                    ELSE w.nodes[i]]]

\* Stat.get(path, root, links): the walk over path.split('/'), from position
\* i, the node reached so far being w.ret
RECURSIVE getloop(_, _, _, _)

\* a get that starts an absolute path at the top of the tree, whatever root is
get_from_top(w, self, p, rt) ==
    IF Failed(w) THEN w
    ELSE getloop([w EXCEPT !.hist.acc = @ + 1,
                           !.ret = IF IsAbs(p) THEN root(w.nodes, self) ELSE self],
                 p, 1, rt)

get(w, self, p, rt) ==
    IF Failed(w) THEN w
    ELSE getloop([w EXCEPT !.hist.acc = @ + 1, !.ret = IF IsAbs(p) THEN rt ELSE self],
                 p, 1, rt)

\* one name of the walk, from node (after the symlink test)
getname(w, node, name, rt) ==
    LET n == w.nodes[node] IN
    IF name = "" \/ name = "." THEN Ret(w, node)
    ELSE IF name \in DOMAIN n.children THEN Ret(w, n.children[name])
    ELSE IF name = ".." THEN Ret(w, IF node # rt THEN n.parent ELSE node)
    ELSE IF ~HasPath(w.nodes, node) THEN Raise(w, "AttributeError")
    ELSE Only([w1 \in {
                   os_lstat(w, Append(path(w.nodes, node), name))} |->
             IF Failed(w1) THEN w1
             ELSE IF w1.ret = NoStat THEN Ret(w1, NONE)
             ELSE Stat_init(w1, node, name, FALSE, w1.ret)])

\* one round of the walk: the symlink test on node, then the name
getstep(w, node, name, rt) ==
    LET n == w.nodes[node] IN
    IF n.link = NoLink THEN Call("getname", <<w, node, name, rt>>)
    ELSE IF n.parent = NONE THEN Raise(w, "AssertionError")
    ELSE IF node \in w.links THEN Raise(w, "ValueError")
    ELSE Only([w1 \in {
                   get([w EXCEPT !.links = @ \cup {node}], n.parent, n.link, rt)} |->
             IF Failed(w1) \/ w1.ret = NONE THEN w1
             ELSE Call("getname", <<w1, w1.ret, name, rt>>)])

getloop(w, p, i, rt) ==
    IF Failed(w) \/ i > Len(p) \/ w.ret = NONE THEN w
    ELSE getloop(getstep(w, w.ret, p[i], rt), p, i + 1, rt)

\* Stat.getdefault(path, fmt, root, links)
getdefault(w, self, p, fmt, rt) ==
    IF Failed(w) THEN w
    ELSE LET head == dirname(p)
             tail == basename(p)
         IN  Only([w1 \in {
                   get(w, self, head, rt)} |->
         Only([w2 \in {
                   IF ~Failed(w1) /\ w1.ret # NONE /\ w1.nodes[w1.ret].fmt = "link"
                   THEN get(w1, w1.ret, <<"">>, rt) ELSE w1} |->
             IF Failed(w2) THEN w2
             ELSE IF w2.ret = NONE THEN Raise(w2, "ValueError")
             ELSE LET headstat == w2.ret
                  IN  Only([w3 \in {
                            IF tail # ""
                            THEN Only([g \in {
                                          get(w2, headstat, <<tail>>, rt)} |->
                                     IF Failed(g) \/ g.ret # NONE THEN g
                                     ELSE Stat_init(g, headstat, tail, TRUE, fmt)])
                            ELSE Ret(w2, headstat)} |->
                      IF Failed(w3) THEN w3
                      ELSE IF fmt # "none" /\ w3.nodes[w3.ret].fmt # fmt
                           THEN Raise(w3, IF HasPath(w3.nodes, w3.ret)
                                          THEN "ValueError" ELSE "AttributeError")
                           ELSE w3])])])

NoLinks(w) == IF Failed(w) THEN w ELSE [w EXCEPT !.links = {}]

\* Stat.lstat(path, fmt): self is the root of the resolution
lstat(w, self, p, fmt) ==
    IF fmt = None THEN get(NoLinks(w), self, p, self)
    ELSE Call("getdefault", <<NoLinks(w), self, p, fmt, self>>)

\* Stat.stat(path, fmt): lstat, then the symlink at the end followed once
stat(w, self, p, fmt) ==
    Only([w1 \in {
              lstat(w, self, p, fmt)} |->
        IF Failed(w1) \/ w1.ret = NONE THEN w1
        ELSE get(w1, w1.ret, <<"">>, self)])

----------------------------------------------------------------------------
(* The syscalls behind the mutating operations, with their effect on disk  *)

\* whether the platform has os.chflags: Linux, where mount --bind is, has not
HasChflags == FALSE

Without(d, phys) == [q \in DOMAIN d \ {phys} |-> d[q]]

\* a newly created entry belongs to the process; the umask is 0 (Jail.parse)
Created(fmt, perm, size, link, rdev) ==
    DiskRec(fmt, perm, EUid, EGid, size, Now, link, rdev)

\* The effect of syscall call(phys, a) on disk d: [errno, disk, real, ret].
\* real is the entry the kernel acted on.
SysEffect(d, call, phys, a) ==
    Only([nf \in {
              KLstat(d, phys)} |->
    Only([fo \in {
              KStat(d, phys)} |->
    LET fail(e, at) == [errno |-> e, disk |-> d, real |-> at]
        ok(d1, at) == [errno |-> "OK", disk |-> d1, real |-> at]
    IN  CASE call \in {"mkdir", "symlink", "mknod"} ->
                IF nf.errno = "OK" THEN fail("EEXIST", nf.path)
                ELSE IF nf.errno # "ENOENT" THEN fail(nf.errno, nf.path)
                ELSE ok((nf.path :> (CASE call = "mkdir" -> Created("dir", a.perm, 4096, NoLink, 0)
                                       [] call = "symlink" -> Created("link", 511, StrLen(a.target), a.target, 0)
                                       [] call = "mknod" -> Created(a.fmt, a.perm, 0, NoLink, a.rdev)))
                        @@ d, nf.path)
          [] call \in {"chmod", "utime", "chflags"} ->
                IF fo.errno # "OK" THEN fail(fo.errno, fo.path)
                ELSE ok([d EXCEPT ![fo.path] =
                            CASE call = "chmod" -> [@ EXCEPT !.perm = a.perm]
                              [] call = "utime" -> [@ EXCEPT !.mtime = a.mtime]
                              [] call = "chflags" -> [@ EXCEPT !.flags = a.flags]], fo.path)
          [] call = "lchown" ->
                IF nf.errno # "OK" THEN fail(nf.errno, nf.path)
                ELSE ok([d EXCEPT ![nf.path] = [@ EXCEPT !.uid = a.uid, !.gid = a.gid]], nf.path)
          [] call = "remove" ->
                IF nf.errno # "OK" THEN fail(nf.errno, nf.path)
                ELSE IF d[nf.path].fmt = "dir" THEN fail("EISDIR", nf.path)
                ELSE ok(Without(d, nf.path), nf.path)
          [] call = "rmdir" ->
                IF nf.errno # "OK" THEN fail(nf.errno, nf.path)
                ELSE IF d[nf.path].fmt # "dir" THEN fail("ENOTDIR", nf.path)
                ELSE IF KChildren(d, nf.path) # {} \/ nf.path = <<>> THEN fail("ENOTEMPTY", nf.path)
                ELSE ok(Without(d, nf.path), nf.path)
          [] call = "open_wb" ->
                IF fo.errno = "OK"
                THEN IF d[fo.path].fmt = "dir" THEN fail("EISDIR", fo.path)
                     ELSE ok([d EXCEPT ![fo.path] = [@ EXCEPT !.size = a.size, !.mtime = Now]], fo.path)
                ELSE IF fo.errno = "ENOENT"
                THEN ok((fo.path :> Created("file", 438, a.size, NoLink, 0)) @@ d, fo.path)
                ELSE fail(fo.errno, fo.path)
          [] call \in {"chdir", "chroot"} ->
                IF fo.errno # "OK" THEN fail(fo.errno, fo.path)
                ELSE IF d[fo.path].fmt # "dir" THEN fail("ENOTDIR", fo.path)
                ELSE ok(d, fo.path)])])

\* issue the syscall: it is logged, acts on the disk, and raises on an errno
\* (IOError from open(), OSError from the os functions)
syscall(w, call, phys, a) ==
    IF Failed(w) THEN w
    ELSE Only([r \in {
                  SysEffect(w.disk, call, phys, a)} |->
         LET w1 == [w EXCEPT !.disk = r.disk,
                             !.hist.sys = Append(@, [call |-> call, path |-> phys,
                                                     real |-> r.real, ok |-> r.errno = "OK"])]
         IN  IF r.errno = "OK" THEN Ret(w1, None)
             ELSE Raise(w1, IF call = "open_wb" THEN "IOError" ELSE "OSError")])

----------------------------------------------------------------------------
(* The policy predicates (Jail.writable, Jail.readable) and Stat.write_call *)

\* writepath_rx.match(dstpath): the regex is kept as the set of directory
\* prefixes it accepts, '^/(tmp|(run|mnt|var)/jailbase)($|/)' being
\* {/tmp, /run/jailbase, /mnt/jailbase, /var/jailbase}
writepath_match(rx, phys) == \E pre \in rx : IsPrefix(pre, phys)

\* a writable() that prints and answers but never refuses a path
writable_unrefusing(w, phys, cmd) ==
    IF Failed(w) THEN w
    ELSE Ret(IF cfg.test \/ cfg.verbose
             THEN [w EXCEPT !.hist.out = Append(@, [call |-> cmd, path |-> phys])]
             ELSE w,
             ~cfg.test)

\* Jail.writable(dstpath, cmd) with cmd given: raises, or prints and answers
writable(w, phys, cmd) ==
    IF Failed(w) THEN w
    ELSE LET allowed == phys = NoPath \/ writepath_match(cfg.writepath, phys)
         IN  IF ~allowed THEN Raise(w, "ValueError")
             ELSE Ret(IF cfg.test \/ cfg.verbose
                      THEN [w EXCEPT !.hist.out = Append(@, [call |-> cmd, path |-> phys])]
                      ELSE w,
                      IF cfg.test THEN FALSE ELSE allowed)

\* Stat.write_call(cmd, func, *args) for a func that is one syscall on self.path
write_call(w, id, call, a) ==
    IF Failed(w) THEN w
    ELSE IF ~HasPath(w.nodes, id) THEN Raise(w, "AttributeError")
    ELSE Only([w1 \in {
                   writable(w, path(w.nodes, id), call)} |->
             IF Failed(w1) THEN w1
             ELSE IF w1.ret THEN syscall(w1, call, path(w.nodes, id), a)
             ELSE Ret(w1, None)])

----------------------------------------------------------------------------
(* The mutating operations of class Stat *)

\* every file name of the model, in the order sorted() gives
NameOrder == <<".dev", ".locale", ".tmp", ".zoneinfo", "a", "b", "bin", "c", "d", "dev", "e",
               "etc", "f", "g", "group", "jailbase", "k", "l", "l2", "ld-linux.so", "lib",
               "liba.so", "libb.so", "libc.so", "libd.so", "libe.so", "lnk", "locale", "loop", "m", "mnt", "mtab", "null", "o", "p",
               "passwd", "q", "r", "random", "s", "sbin", "sh", "share", "t", "tmp", "u",
               "up", "urandom", "usr", "var", "x", "y", "z", "zero", "zoneinfo">>

sorted(S) == SelectSeq(NameOrder, LAMBDA n : n \in S)

\* Stat.chown(uid, gid); a negative id (or None) leaves the field as it is
chown(w, id, uid0, gid0) ==
    IF Failed(w) THEN w
    ELSE LET n == w.nodes[id]
             uid == IF uid0 < 0 THEN n.uid ELSE uid0
             gid == IF gid0 < 0 THEN n.gid ELSE gid0
         IN  IF uid # n.uid \/ gid # n.gid
             THEN Only([w1 \in {
                            write_call(w, id, "lchown", [uid |-> uid, gid |-> gid])} |->
                      IF Failed(w1) THEN w1
                      ELSE Ret([w1 EXCEPT !.nodes[id].uid = uid, !.nodes[id].gid = gid], id)])
             ELSE Ret(w, id)

\* Stat.chmod(mode)
chmod(w, id, mode) ==
    IF Failed(w) THEN w
    ELSE IF w.nodes[id].perm # mode
         THEN Only([w1 \in {
                        write_call(w, id, "chmod", [perm |-> mode])} |->
                  IF Failed(w1) THEN w1
                  ELSE Ret([w1 EXCEPT !.nodes[id].perm = mode], id)])
         ELSE Ret(w, id)

\* the 0.5 s of the float comparisons, in quarter seconds
HalfSecond == 2

\* Stat.utime(mtime); None is the current time
utime(w, id, mtime0) ==
    IF Failed(w) THEN w
    ELSE LET mtime == IF mtime0 = NoTime THEN Now ELSE mtime0
         IN  IF Abs(mtime - w.nodes[id].mtime) < HalfSecond THEN Ret(w, None)
             ELSE Only([w1 \in {
                            write_call(w, id, "utime", [mtime |-> mtime])} |->
                      IF Failed(w1) THEN w1
                      ELSE Ret([w1 EXCEPT !.nodes[id].mtime = mtime], id)])

\* Stat.chflags(flags)
chflags(w, id, flags) ==
    IF Failed(w) THEN w
    ELSE IF w.nodes[id].flags = flags THEN Ret(w, None)
    ELSE Only([w1 \in {
                   IF HasChflags THEN write_call(w, id, "chflags", [flags |-> flags]) ELSE w} |->
             IF Failed(w1) THEN w1
             ELSE Ret([w1 EXCEPT !.nodes[id].flags = flags], id)])

\* Stat.symlink(target, path), path given or None (isself)
symlink(w, self, target, isself, p) ==
    IF Failed(w) THEN w
    ELSE LET w0 == IF isself THEN Ret(w, self)
                   ELSE Call("getdefault", <<NoLinks(w), self, p, "link", root(w.nodes, self)>>)
         IN  IF Failed(w0) THEN w0
             ELSE LET dst == w0.ret
                      n == w0.nodes[dst]
                  IN  IF ~Truthy(n) \/ n.link # target
                      THEN Only([w1 \in {
                                     write_call(w0, dst, "symlink", [target |-> target])} |->
                               IF Failed(w1) THEN w1
                               ELSE Ret([w1 EXCEPT !.nodes[dst].fmt = "link",
                                                   !.nodes[dst].perm = 511,
                                                   !.nodes[dst].size = StrLen(target),
                                                   !.nodes[dst].link = target], dst)])
                      ELSE Ret(w0, dst)

\* Stat.mkdir(path, mode, uid, gid); path None is ''
Stat_mkdir(w, self, p, mode, uid, gid) ==
    IF Failed(w) THEN w
    ELSE LET w0 == Call("getdefault", <<NoLinks(w), self, p, "dir", root(w.nodes, self)>>)
         IN  IF Failed(w0) THEN w0
             ELSE LET dst == w0.ret
                  IN  Only([w1 \in {
                            IF ~Truthy(w0.nodes[dst])
                            THEN Only([g \in {
                                          write_call(w0, dst, "mkdir", [perm |-> mode])} |->
                                     IF Failed(g) THEN g
                                     ELSE [g EXCEPT !.nodes[dst].perm = mode]])
                            ELSE Call("chmod", <<w0, dst, mode>>)} |->
                      Ret(Call("chown", <<w1, dst, uid, gid>>), dst)])

\* Stat.makedirs(path, mode) from position i of the path, node being reached
RECURSIVE makedirsloop(_, _, _, _, _, _)
makedirsloop(w, node, p, i, mode, rt) ==
    IF Failed(w) \/ i > Len(p) THEN Ret(w, node)
    ELSE IF p[i] = "" THEN Call("makedirsloop", <<w, node, p, i + 1, mode, rt>>)
    ELSE Only([w1 \in {
                   get(w, node, <<p[i]>>, rt)} |->
         Only([m \in {
                  Stat_mkdir(w1, node, <<p[i]>>, mode, -1, -1)} |->
         LET w2 == IF ~Failed(w1) /\ w1.ret = NONE
                   THEN (IF Failed(m) THEN m ELSE [m EXCEPT !.links = w1.links])
                   ELSE w1
         IN  IF Failed(w2) THEN w2 ELSE Call("makedirsloop", <<w2, w2.ret, p, i + 1, mode, rt>>)])])

makedirs(w, self, p, mode) ==
    LET rt == root(w.nodes, self)
    IN  Call("makedirsloop", <<NoLinks(w), IF IsAbs(p) THEN rt ELSE self, p, 1, mode, rt>>)

\* Stat.mknod(path, mode, device); mode is the pair (fmt, perm)
Stat_mknod(w, self, p, fmt, perm, device) ==
    IF Failed(w) THEN w
    ELSE LET w0 == Call("getdefault", <<NoLinks(w), self, p, fmt, root(w.nodes, self)>>)
         IN  IF Failed(w0) THEN w0
             ELSE LET dst == w0.ret IN
                  IF ~Truthy(w0.nodes[dst])
                  THEN Only([w1 \in {
                                 write_call(w0, dst, "mknod",
                                            [fmt |-> fmt, perm |-> perm, rdev |-> device])} |->
                           IF Failed(w1) THEN w1
                           ELSE Ret([w1 EXCEPT !.nodes[dst].fmt = fmt,
                                               !.nodes[dst].perm = perm,
                                               !.nodes[dst].rdev = device], dst)])
                  ELSE IF w0.nodes[dst].fmt # fmt \/ w0.nodes[dst].rdev # device
                       THEN Raise(w0, "AssertionError")
                       ELSE Ret(Call("chmod", <<w0, dst, perm>>), dst)

\* Stat.remove
remove(w, id) ==
    IF Failed(w) THEN w
    ELSE IF w.nodes[id].fmt = "dir" THEN Raise(w, "AssertionError")
    ELSE Ret(clear(write_call(w, id, "remove", <<>>), id), None)

\* Stat.rmdir
rmdir(w, id) ==
    IF Failed(w) THEN w
    ELSE IF w.nodes[id].fmt # "dir" THEN Raise(w, "AssertionError")
    ELSE Ret(clear(write_call(w, id, "rmdir", <<>>), id), None)

\* Stat.listdir() of node id: os.listdir joined with the cached children
listdir(w, id) ==
    IF Failed(w) THEN w
    ELSE IF ~HasPath(w.nodes, id) THEN Raise(w, "AttributeError")
    ELSE Only([r \in {
                  KStat(w.disk, path(w.nodes, id))} |->
         LET kids == DOMAIN w.nodes[id].children
         IN  IF r.errno = "OK"
             THEN IF w.disk[r.path].fmt = "dir"
                  THEN Ret(w, sorted(KChildren(w.disk, r.path) \cup kids))
                  ELSE Raise(w, "OSError")
             ELSE IF r.errno \in {"ENOENT", "ENOENT_DIR"} THEN Ret(w, sorted(kids))
             ELSE Raise(w, "OSError")])

\* the least number of '/' of a path on which rm_rf removes a directory
RmrfSlashes == 2

\* Stat.rm_rf(dstpath)
RECURSIVE rm_rf(_, _, _)
RECURSIVE rm_rf_names(_, _, _)
rm_rf_names(w, dir, names) ==
    IF Failed(w) \/ names = <<>> THEN w
    ELSE rm_rf_names(Call("rm_rf", <<w, dir, <<Head(names)>>>>), dir, Tail(names))

\* an rm_rf that follows a symlink at the end of its path
rm_rf_following(w, self, p) ==
    IF Failed(w) THEN w
    ELSE Only([w0 \in {
                   stat(w, self, p, None)} |->
             IF Failed(w0) \/ w0.ret = NONE THEN Ret(w0, None)
             ELSE LET dst == w0.ret IN
                  IF ~Truthy(w0.nodes[dst]) THEN Ret(w0, None)
                  ELSE IF w0.nodes[dst].fmt = "dir"
                  THEN LET w1 == Call("listdir", <<w0, dst>>)
                       IN  IF Failed(w1) THEN w1
                           ELSE rmdir(rm_rf_names(w1, dst, w1.ret), dst)
                  ELSE remove(w0, dst)])

rm_rf(w, self, p) ==
    IF Failed(w) THEN w
    ELSE Only([w0 \in {
                   get(NoLinks(w), self, p, root(w.nodes, self))} |->
             IF Failed(w0) \/ w0.ret = NONE THEN Ret(w0, None)
             ELSE LET dst == w0.ret IN
                  IF ~Truthy(w0.nodes[dst]) THEN Ret(w0, None)
                  ELSE IF w0.nodes[dst].fmt = "dir"
                  THEN IF ~(Max(1, Len(path(w0.nodes, dst))) > RmrfSlashes)
                       THEN Raise(w0, "AssertionError")
                       ELSE LET w1 == Call("listdir", <<w0, dst>>)
                            IN  IF Failed(w1) THEN w1
                                ELSE rmdir(rm_rf_names(w1, dst, w1.ret), dst)
                  ELSE remove(w0, dst)])

----------------------------------------------------------------------------
(* Copying and comparing *)

\* Stat.refresh() without data: lstat self.path and copy what it gives
refresh_self(w, id) ==
    IF Failed(w) THEN w
    ELSE IF ~HasPath(w.nodes, id) THEN Raise(w, "AttributeError")
    ELSE Only([w1 \in {
                   os_lstat(w, path(w.nodes, id))} |->
             IF Failed(w1) \/ w1.ret = NoStat THEN w1 ELSE refresh(w1, id, w1.ret)])

\* Stat.checkcache: re-stat, then compare with what was cached
checkcache(w, id) ==
    IF Failed(w) THEN w
    ELSE IF ~HasPath(w.nodes, id) THEN Raise(w, "AttributeError")
    ELSE LET old == w.nodes[id]
         IN  Only([w1 \in {
                   IF KStat(w.disk, path(w.nodes, id)).errno = "OK"
                   THEN refresh_self(w, id) ELSE w} |->
             IF Failed(w1) THEN w1
             ELSE LET new == w1.nodes[id]
                      diff == \/ new.link # old.link
                              \/ new.fmt # old.fmt \/ new.perm # old.perm
                              \/ new.uid # old.uid \/ new.gid # old.gid
                              \/ new.rdev # old.rdev
                              \/ /\ old.fmt \notin {"dir", "link"}
                                 /\ \/ new.size # old.size
                                    \/ Abs(new.mtime - old.mtime) > HalfSecond
                  IN  IF diff THEN Raise(w1, "ValueError") ELSE Ret(w1, TRUE)])

\* Stat.__cmp__(self, other) on two node records: 0 when they compare equal
Sign(x) == IF x < 0 THEN -1 ELSE IF x > 0 THEN 1 ELSE 0
FirstNonZero(s) ==
    IF \E i \in 1..Len(s) : s[i] # 0
    THEN s[CHOOSE i \in 1..Len(s) : s[i] # 0 /\ \A j \in 1..(i - 1) : s[j] = 0]
    ELSE 0
cmp(a, b) ==
    IF ~Truthy(a) THEN (IF Truthy(b) THEN 1 ELSE 0)
    ELSE IF ~Truthy(b) THEN -1
    ELSE LET diff == FirstNonZero(<<a.perm - b.perm, a.uid - b.uid,
                                    a.gid - b.gid, a.size - b.size>>)
         IN  IF diff # 0 THEN Sign(diff)
             ELSE IF a.fmt = "link" THEN (IF a.link = b.link THEN 0 ELSE 1)
             ELSE IF Abs(a.mtime - b.mtime) > HalfSecond
                  THEN Sign(a.mtime - b.mtime) ELSE 0

\* Stat.copydata(dststat): the bytes of the source file written to the
\* destination; returns the number of bytes written
copydata(w, src, dst) ==
    IF Failed(w) THEN w
    ELSE IF src = dst THEN Ret(w, NoBytes)
    ELSE Only([r \in {
                  KStat(w.disk, path(w.nodes, src))} |->
             IF r.errno # "OK" \/ w.disk[r.path].fmt = "dir" THEN Raise(w, "IOError")
             ELSE Ret(syscall(w, "open_wb", path(w.nodes, dst),
                              [size |-> w.disk[r.path].size]),
                      w.disk[r.path].size)])

\* Python truth of the value copydata returns
TruthOf(v) == v # NoBytes /\ v # 0

\* Stat.copy2(dststat)
copy2(w, src, dst) ==
    IF Failed(w) THEN w
    ELSE IF src = dst THEN Ret(w, None)
    ELSE LET s == w.nodes[src]
             d == w.nodes[dst]
         IN  IF s.fmt # "file" THEN Raise(w, "UnboundLocalError")
             ELSE IF Truthy(d) /\ d.fmt # "file" THEN Raise(w, "UnboundLocalError")
             ELSE IF ~HasPath(w.nodes, src) \/ ~HasPath(w.nodes, dst)
                  THEN Raise(w, "AttributeError")
             ELSE LET w1 == [w EXCEPT !.nodes[dst] =
                                [@ EXCEPT !.size = s.size, !.uid = s.uid, !.gid = s.gid,
                                          !.flags = s.flags, !.fmt = s.fmt,
                                          !.perm = s.perm, !.mtime = s.mtime]]
                      dp == path(w.nodes, dst)
                  IN  Only([g \in {
                           writable(w1, dp, "cp")} |->
                  Only([w2 \in {
                            IF Failed(g) THEN g
                            ELSE IF g.ret THEN copydata(g, src, dst) ELSE Ret(g, NoBytes)} |->
                      IF Failed(w2) THEN w2
                      ELSE IF TruthOf(w2.ret)
                      THEN Only([c1 \in {
                                     syscall(w2, "lchown", dp, [uid |-> s.uid, gid |-> s.gid])} |->
                           Only([c2 \in {
                                     syscall(c1, "chmod", dp, [perm |-> s.perm])} |->
                           Only([c3 \in {
                                     IF HasChflags
                                     THEN syscall(c2, "chflags", dp, [flags |-> s.flags])
                                     ELSE c2} |->
                           Only([c4 \in {
                                     syscall(c3, "utime", dp, [mtime |-> s.mtime])} |->
                               Ret(checkcache(c4, dst), dst)])])])])
                      ELSE Ret(w2, dst)])])

\* Stat.chroot(path) and Stat.chdir(path)
chcall(w, self, p, call) ==
    IF Failed(w) THEN w
    ELSE Only([w0 \in {
                   get(NoLinks(Step(w, call, p)), self, p, root(w.nodes, self))} |->
             IF Failed(w0) THEN w0
             ELSE IF w0.ret = NONE THEN Raise(w0, "AttributeError")
             ELSE Ret(write_call(w0, w0.ret, call, <<>>), w0.ret)])
\* a chroot() that changes the root twice
chroot_twice(w, self, p) == chcall(chcall(w, self, p, "chroot"), self, p, "chroot")

chroot(w, self, p) == chcall(w, self, p, "chroot")
chdir(w, self, p) == chcall(w, self, p, "chdir")

\* the class methods setgroups, setgid, setuid, umask, execve: a change of
\* the process, gated by writable(None, cmd)
proccall(w, call, a) ==
    IF Failed(w) THEN w
    ELSE LET g == writable(Step(w, call, a), NoPath, call)
         IN  IF Failed(g) THEN g
             ELSE IF g.ret
                  THEN Ret([g EXCEPT !.hist.sys =
                              Append(@, [call |-> call, path |-> NoPath,
                                         real |-> NoPath, ok |-> TRUE])], None)
                  ELSE Ret(g, None)
setgroups(w, groups) == proccall(w, "setgroups", groups)
setgid(w, gid) == IF gid < 1 \/ gid = EGid THEN w ELSE proccall(w, "setgid", gid)
setuid(w, uid) == IF uid < 1 \/ uid = EUid THEN w ELSE proccall(w, "setuid", uid)
umask(w, mask) == proccall(w, "umask", mask)
execve(w, args) == proccall(w, "execve", args)

----------------------------------------------------------------------------
(* class JailConfig (jail.py) *)

\* JAILTMP, JAILHOME, JAILMOUNT with JAILBASE = 'jailbase', as physical
\* paths; JAILTMP is what the environment of the host gives (os.getenv)
JAILTMP == host.jailtmp
JAILHOME == <<"var", "jailbase">>
JAILMOUNT == <<"mnt", "jailbase">>

\* the regex set_writepath compiles in JailConfig.__init__
DefaultWritepath == {<<"tmp">>, <<"run", "jailbase">>, <<"mnt", "jailbase">>,
                     <<"var", "jailbase">>}

\* the None of a uid or gid: like None in Python 2 it is below every number
NoneId == -2

\* the accounts of the host (pwd, grp): a name is a token <<name>>
PwNam == [u |-> [uid |-> 1000, gid |-> 1000], root |-> [uid |-> 0, gid |-> 0]]
PwUids == {PwNam[n].uid : n \in DOMAIN PwNam}
GrGids == {PwNam[n].gid : n \in DOMAIN PwNam}
GrName(gid) == CHOOSE n \in DOMAIN PwNam : PwNam[n].gid = gid

\* the names validname_rx accepts
ValidNames == {"u", "k", "root"}

\* int(text, 0) of the numeric tokens
IntOf == [t \in {"0", "0644", "0750", "0755", "0700"} |->
            CASE t = "0" -> 0 [] t = "0644" -> 420 [] t = "0750" -> 488
              [] t = "0755" -> 493 [] t = "0700" -> 448]
IsInt(tok) == Len(tok) = 1 /\ tok[1] \in DOMAIN IntOf

\* JailConfig.jailhome, jailmount, jailpriv: None while the name is not set
HasUser == cfg.user # None
HasGroup == cfg.group # None
jailhome == Append(JAILHOME, cfg.group)
jailmount == Append(JAILMOUNT, cfg.user)
jailpriv == Append(JAILTMP, cfg.user)

\* JailConfig.userspec(user, group, uid, gid) for user and group names or
\* None; returns <<uid, gid>>. An invalid name raises JailError (namespec).
userspec_ok(user, group) ==
    /\ user = None \/ user \in ValidNames
    /\ group = None \/ group \in ValidNames

\* JailConfig.namespec(user) of a string: user.partition(':'), an empty part
\* is None; <<user, group>>
Partition ==
    [s \in {"u:root", "root:u", "k:u", "u:k", "u:u"} |->
        CASE s = "u:root" -> <<"u", "root">> [] s = "root:u" -> <<"root", "u">>
          [] s = "k:u" -> <<"k", "u">> [] s = "u:k" -> <<"u", "k">>
          [] s = "u:u" -> <<"u", "u">>]
namespec(s) == IF s \in DOMAIN Partition THEN Partition[s] ELSE <<s, None>>
userspec(user, group, uid, gid) ==
    LET found == user # None /\ user \in DOMAIN PwNam
        uid1 == IF found THEN PwNam[user].uid ELSE uid
        gid1 == IF found /\ group = None /\ gid = NoneId THEN PwNam[user].gid ELSE gid
        gid2 == IF group # None /\ group \in DOMAIN PwNam THEN PwNam[group].gid ELSE gid1
    IN  <<uid1, gid2>>

\* Jail.subprops(fmtstring): '{key}' at the head of a path is replaced by the
\* property; a property that is not set raises JailError
PropKeys == {"{jailhome}", "{jailmount}", "{jailpriv}"}
subprops_ok(p) ==
    p[1] \notin PropKeys
    \/ (p[1] = "{jailhome}" /\ HasGroup)
    \/ (p[1] \in {"{jailmount}", "{jailpriv}"} /\ HasUser)
subprops(p) ==
    IF p[1] \notin PropKeys THEN p
    ELSE PathOf(CASE p[1] = "{jailhome}" -> jailhome
                  [] p[1] = "{jailmount}" -> jailmount
                  [] p[1] = "{jailpriv}" -> jailpriv) \o Tail(p)

----------------------------------------------------------------------------
(* class Jail (jail.py): paths, nodes and the accounts seen *)

PwGid(uid) == PwNam[CHOOSE n \in DOMAIN PwNam : PwNam[n].uid = uid].gid

\* Jail.dst_gid(gid) and Jail.dst_uid(uid): remember the accounts seen
dst_gid(w, gid) ==
    IF Failed(w) THEN w
    ELSE IF gid >= 0 /\ gid \notin w.jail.dst_gids /\ gid \in GrGids
    THEN [w EXCEPT !.jail.dst_gids = @ \cup {gid}]
    ELSE w
dst_uid(w, uid) ==
    IF Failed(w) THEN w
    ELSE IF uid >= 0 /\ uid \notin w.jail.dst_uids /\ uid \in PwUids
    THEN dst_gid([w EXCEPT !.jail.dst_uids = @ \cup {uid}], PwGid(uid))
    ELSE w

\* Jail.decode_mode(mode) of a token: int(mode, 0) raises ValueError
decode_mode(w, tok) ==
    IF Failed(w) THEN w
    ELSE IF IsInt(tok) THEN Ret(w, IntOf[tok[1]]) ELSE Raise(w, "ValueError")

\* the handlers call each other: clone is reached from update_jailbase,
\* which every srcpath() reaches
RECURSIVE update_jailbase(_, _)
RECURSIVE clone(_, _, _)
RECURSIVE clone_recurse(_, _, _, _)
RECURSIVE Jail_mkdir(_, _, _, _, _, _)

\* Jail.srcpath(srcpath): the absolute path string
srcpath(w, p) ==
    IF Failed(w) THEN w
    ELSE IF ~subprops_ok(p) THEN Raise(w, "JailError")
    ELSE LET sp == abspath(subprops(p))
         IN  Ret(update_jailbase(w, sp), sp)

\* Jail.srcstat(path)
srcstat(w, p) == lstat(w, 1, p, None)

\* Jail.dstpath(dstpath): writable() without cmd neither raises nor prints
dstpath(w, p) ==
    IF Failed(w) THEN w
    ELSE IF ~subprops_ok(p) THEN Raise(w, "JailError")
    ELSE Ret(w, abspath(subprops(p)))

\* Jail.dststat(dstpath, reqfmt); reqfmt None is a plain get
dststat(w, p, reqfmt) ==
    IF Failed(w) THEN w
    ELSE Only([w1 \in {
                   IF reqfmt = None THEN get(NoLinks(w), 1, p, 1)
                   ELSE Call("getdefault", <<NoLinks(w), 1, p, reqfmt, 1>>)} |->
             IF Failed(w1) \/ w1.ret = NONE THEN w1
             ELSE Ret(dst_gid(dst_uid(w1, w1.nodes[w1.ret].uid), w1.nodes[w1.ret].gid),
                      w1.ret)])

\* Stat.listdir(path) with a path: the node is self.stat(path)
listdir_path(w, self, p) ==
    Only([w1 \in {
              stat(w, self, p, None)} |->
        IF Failed(w1) THEN w1
        ELSE IF w1.ret = NONE THEN Raise(w1, "AttributeError")
        ELSE Call("listdir", <<w1, w1.ret>>)])

\* Jail.clone_stat(srcstat, dststat)
clone_stat(w, src, dst) ==
    IF Failed(w) THEN w
    ELSE IF src = dst THEN Ret(w, TRUE)
    ELSE LET s == w.nodes[src] IN
         IF s.fmt # w.nodes[dst].fmt
         THEN Raise(w, IF HasPath(w.nodes, dst) THEN "ValueError" ELSE "AttributeError")
         ELSE LET w0 == IF HasPath(w.nodes, src)
                        THEN [w EXCEPT !.hist.cln = Append(@, path(w.nodes, src))]
                        ELSE w
              IN  Only([w1 \in {
                        dst_gid(dst_uid(w0, s.uid), s.gid)} |->
              Only([w2 \in {
                        CASE s.fmt = "file" -> copy2(w1, src, dst)
                          [] s.fmt = "dir" ->
                                utime(Stat_mkdir(w1, dst, <<"">>, s.perm, s.uid, s.gid),
                                      dst, s.mtime)
                          [] s.fmt = "link" ->
                                Call("chown", <<Call("symlink", <<w1, dst, s.link, TRUE, <<"">>>>), dst, s.uid, s.gid>>)
                          [] s.fmt \in {"chr", "blk"} ->
                                utime(Call("chown", <<Call("Stat_mknod", <<w1, dst, <<"">>, s.fmt, s.perm, s.rdev>>),
                                            dst, s.uid, s.gid>>), dst, s.mtime)
                          [] OTHER -> w1} |->
                  InOrder(<<w1, w2,
                            IF s.fmt \notin {"file", "dir", "link", "chr", "blk"} THEN Ret(w2, FALSE)
                            ELSE Ret(chflags(w2, dst, s.flags), TRUE)>>)])])

\* Jail.clone(srcpath, dstpath)
clone(w, sp0, dp0) ==
    IF Failed(w) THEN w
    ELSE LET w1 == Call("srcpath", <<w, sp0>>)
             sp == w1.ret
         IN  Only([w2 \in {
                   srcstat(w1, sp)} |->
         LET src == w2.ret
             w3 == Call("dstpath", <<w2, dp0>>)
             dp == w3.ret
             dstdir == dirname(dp)
         IN  Only([w4 \in {
                   stat(w3, 1, dstdir, None)} |->
         Only([w5 \in {
                   IF Failed(w4) THEN w4
                   ELSE IF w4.ret = NONE \/ ~Truthy(w4.nodes[w4.ret])
                        THEN Call("clone", <<w4, dirname(sp), dstdir>>)
                        ELSE w4} |->
             InOrder(<<w1, w2, w3, w4, w5,
                       IF Failed(w5) THEN w5
                       ELSE IF src = NONE THEN Raise(w5, "AttributeError")
                       ELSE IF w5.nodes[src].fmt = "none" THEN Raise(w5, "AssertionError")
                       ELSE LET w6 == Call("dststat", <<w5, dp, w5.nodes[src].fmt>>)
                            IN  IF Failed(w6) THEN w6 ELSE clone_stat(w6, src, w6.ret)>>)])])])

\* the loop of clone_recurse over the directory entries
RECURSIVE clone_recurse_names(_, _, _, _, _)
clone_recurse_names(w, sp, dp, names, quick) ==
    IF Failed(w) \/ names = <<>> THEN w
    ELSE clone_recurse_names(
            Call("clone_recurse", <<w, join(sp, <<Head(names)>>), join(dp, <<Head(names)>>), quick>>),
            sp, dp, Tail(names), quick)

\* Jail.clone_recurse(srcpath, dstpath, quick), quick being true or false
clone_recurse(w, sp0, dp0, quick) ==
    IF Failed(w) THEN w
    ELSE LET w1 == Call("srcpath", <<w, sp0>>)
             sp == w1.ret
         IN  Only([w2 \in {
                   srcstat(w1, sp)} |->
         LET src == w2.ret
             w3 == Call("dstpath", <<w2, dp0>>)
             dp == w3.ret
             w4 == Call("dststat", <<w3, dp, None>>)
             dst == w4.ret
             w5 == Call("clone", <<w4, sp, dp>>)
         IN  InOrder(<<w1, w2, w3, w4, w5,
                       IF Failed(w5) THEN w5
                       ELSE IF w5.nodes[src].fmt = "dir"
                               /\ (~quick \/ (IF dst = NONE THEN Truthy(w5.nodes[src])
                                              ELSE cmp(w5.nodes[src], w5.nodes[dst]) # 0))
                       THEN Only([w6 \in {
                                      listdir_path(w5, 1, sp)} |->
                                IF Failed(w6) THEN w6
                                ELSE Ret(clone_recurse_names(w6, sp, dp, w6.ret, quick), None)])
                       ELSE Ret(w5, None)>>)])

\* JailConfig.userspec(user, group, uid, gid) for user and group given as
\* numbers (getpwuid, getgrgid)
userspec_ids(user, group, uid, gid) ==
    <<IF user \in PwUids THEN user ELSE uid,
      IF group \in GrGids THEN group ELSE gid>>

\* Jail.mkdir(dstpath, mode, user, group) with the mode decoded; byname says
\* whether user and group are names (or None) or numbers
Jail_mkdir(w, p, mode, byname, user, group) ==
    IF Failed(w) THEN w
    ELSE IF byname /\ ~userspec_ok(user, group) THEN Raise(w, "JailError")
    ELSE Only([ug \in {
                   IF byname THEN userspec(user, group, cfg.uid, cfg.gid)
                   ELSE userspec_ids(user, group, cfg.uid, cfg.gid)} |->
         LET w1 == Call("dstpath", <<w, p>>)
             dp == w1.ret
             w2 == Call("dststat", <<w1, dp, "dir">>)
             w3 == Call("srcpath", <<w2, dirname(dp)>>)
         IN  Only([w4 \in {
                   dst_gid(dst_uid(w3, ug[1]), ug[2])} |->
             InOrder(<<w1, w2, w3, w4, Ret(Stat_mkdir(w4, 1, dp, mode, ug[1], ug[2]), None)>>)])])

\* JailConfig.jailtmp and jaildev
jailtmp == Append(JAILTMP, ".tmp")
jaildev == Append(JAILTMP, ".dev")

\* Jail.jailbase_tmp (--tmp)
jailbase_tmp(w) ==
    IF Failed(w) THEN w
    ELSE LET w1 == makedirs(w, 1, PathOf(JAILTMP), w.nodes[1].perm)
         IN  Only([w2 \in {
                   srcstat(w1, <<"", "tmp">>)} |->
         LET src == w2.ret
             w3 == IF Failed(w2) THEN w2
                   ELSE IF src = NONE THEN Raise(w2, "AttributeError")
                   ELSE IF w2.nodes[src].fmt = "none" THEN Raise(w2, "AssertionError")
                   ELSE Call("dststat", <<w2, PathOf(jailtmp), w2.nodes[src].fmt>>)
         IN  Only([w4 \in {
                   IF Failed(w3) THEN w3 ELSE clone_stat(w3, src, w3.ret)} |->
             InOrder(<<w1, w2, w3, w4,
                       IF HasUser THEN Jail_mkdir(w4, PathOf(jailpriv), 488, TRUE, None, None)
                       ELSE Ret(w4, None)>>)])])

\* one device of Jail.jailbase_dev, name "" being /dev itself
jailbase_dev_one(w, name) ==
    LET sp == IF name = "" THEN <<"", "dev">> ELSE <<"", "dev", name>>
        dp == IF name = "" THEN PathOf(jaildev) ELSE PathOf(Append(jaildev, name))
    IN  Only([w2 \in {
              srcstat(w, sp)} |->
    LET src == w2.ret
        w3 == IF Failed(w2) THEN w2
              ELSE IF src = NONE THEN Raise(w2, "AttributeError")
              ELSE IF w2.nodes[src].fmt = "none" THEN Raise(w2, "AssertionError")
              ELSE Call("dststat", <<w2, dp, w2.nodes[src].fmt>>)
    IN  InOrder(<<w2, w3, IF Failed(w3) THEN w3 ELSE clone_stat(w3, src, w3.ret)>>)])

\* Jail.jailbase_dev (--dev)
jailbase_dev(w) ==
    IF Failed(w) THEN w
    ELSE LET w1 == makedirs(w, 1, PathOf(JAILTMP), w.nodes[1].perm)
             w2 == Call("jailbase_dev_one", <<w1, "">>)
             w3 == Call("jailbase_dev_one", <<w2, "null">>)
             w4 == Call("jailbase_dev_one", <<w3, "zero">>)
             w5 == Call("jailbase_dev_one", <<w4, "random">>)
         IN  InOrder(<<w1, w2, w3, w4, w5, Ret(Call("jailbase_dev_one", <<w5, "urandom">>), None)>>)

\* Jail.update_jailbase(path) for the path string sp
update_jailbase(w, sp) ==
    IF Failed(w) \/ w.jail.updated_jailbase THEN w
    ELSE LET phys == PhysOf(sp)
             early == IsPrefix(<<"jailbase">>, phys) \/ IsPrefix(JAILTMP, phys)
         IN  IF ~early /\ ~HasUser THEN Raise(w, "JailError")
             ELSE IF ~early /\ ~IsPrefix(Append(jailmount, "jailbase"), phys) THEN w
             ELSE LET r == w.nodes[1]
                  IN  Only([w0 \in {
                            srcstat([w EXCEPT !.jail.updated_jailbase = TRUE], <<"", "">>)} |->
                  Only([w1 \in {
                            Stat_mkdir(w0, 1, PathOf(JAILTMP), r.perm, r.uid, r.gid)} |->
                  Only([w2 \in {
                            Stat_mkdir(w1, 1, PathOf(JAILHOME), r.perm, r.uid, r.gid)} |->
                  Only([w3 \in {
                            Stat_mkdir(w2, 1, PathOf(JAILMOUNT), r.perm, r.uid, r.gid)} |->
                  Only([w4 \in {
                            jailbase_dev(Call("jailbase_tmp", <<w3>>))} |->
                  LET w5 == Call("clone_recurse", <<w4, <<"", "usr", "share", "zoneinfo">>,
                                          PathOf(Append(JAILTMP, ".zoneinfo")), TRUE>>)
                  IN  InOrder(<<w0, w1, w2, w3, w4, w5,
                                Call("clone_recurse", <<w5, <<"", "usr", "lib", "locale">>,
                                              PathOf(Append(JAILTMP, ".locale")), TRUE>>)>>)])])])])])

----------------------------------------------------------------------------
(* The queued commands on single paths. An argument is a token: the        *)
(* sequence split('/') gives of its text; NoArg is an argument left out.   *)

NoArg == <<>>
NameOf(tok) == IF tok = NoArg THEN None ELSE tok[1]

\* Jail.mkdir as the command --mkdir dstpath [mode [user [group]]]
cmd_mkdir(w, p, mode, user, group) ==
    LET w1 == IF mode = NoArg THEN Ret(w, 488) ELSE decode_mode(w, mode)
    IN  IF Failed(w1) THEN w1
        ELSE Jail_mkdir(w1, p, w1.ret % 4096, TRUE, NameOf(user), NameOf(group))

\* Jail.symlink (--ln-s target linkname)
cmd_symlink(w, target, linkname) ==
    IF Failed(w) THEN w
    ELSE IF ~subprops_ok(target) THEN Raise(w, "JailError")
    ELSE LET t == subprops(target)
             w1 == Call("dstpath", <<w, linkname>>)
             w2 == Call("dststat", <<w1, w1.ret, "link">>)
         IN  IF Failed(w2) THEN w2
             ELSE IF Truthy(w2.nodes[w2.ret]) /\ w2.nodes[w2.ret].link # t
                  THEN Raise(w2, "JailError")
                  ELSE Ret(Call("symlink", <<w2, 1, t, FALSE, w1.ret>>), None)

\* os.makedev(major, minor)
makedev(major, minor) == major * 256 + minor

\* Jail.mknod (--mknod dstpath devtype major [minor])
cmd_mknod(w, p, devtype, major, minor) ==
    IF Failed(w) THEN w
    ELSE IF devtype \notin {<<"c">>, <<"b">>} THEN Raise(w, "JailError")
    ELSE IF ~IsInt(major) \/ (minor # NoArg /\ ~IsInt(minor)) THEN Raise(w, "ValueError")
    ELSE LET fmt == IF devtype = <<"c">> THEN "chr" ELSE "blk"
             device == IF minor = NoArg THEN IntOf[major[1]]
                       ELSE makedev(IntOf[major[1]], IntOf[minor[1]])
             w1 == Call("dstpath", <<w, p>>)
             w2 == Call("dststat", <<w1, w1.ret, fmt>>)
         IN  IF Failed(w2) THEN w2
             ELSE IF Truthy(w2.nodes[w2.ret]) /\ w2.nodes[w2.ret].rdev # device
                  THEN Raise(w2, "JailError")
                  ELSE Ret(Call("Stat_mknod", <<w2, 1, w1.ret, fmt, 438, device>>), None)

\* Jail.rmdir (--rmdir) and Jail.rm (--rm)
cmd_rmdir(w, p) ==
    LET w1 == Call("dstpath", <<w, p>>)
        w2 == Call("dststat", <<w1, w1.ret, None>>)
    IN  IF Failed(w2) \/ w2.ret = NONE THEN Ret(w2, None)
        ELSE IF Truthy(w2.nodes[w2.ret]) THEN rmdir(w2, w2.ret) ELSE Ret(w2, None)
cmd_rm(w, p) ==
    LET w1 == Call("dstpath", <<w, p>>)
        w2 == Call("dststat", <<w1, w1.ret, None>>)
    IN  IF Failed(w2) \/ w2.ret = NONE THEN Ret(w2, None)
        ELSE IF Truthy(w2.nodes[w2.ret]) THEN remove(w2, w2.ret) ELSE Ret(w2, None)

\* Jail.chflags (--chflags dstpath flags)
cmd_chflags(w, p, flags) ==
    LET w1 == Call("dstpath", <<w, p>>)
        w2 == Call("dststat", <<w1, w1.ret, None>>)
    IN  IF Failed(w2) THEN w2
        ELSE IF w2.ret = NONE THEN Raise(w2, "AttributeError")
        ELSE IF ~IsInt(flags) THEN Raise(w2, "ValueError")
        ELSE Ret(chflags(w2, w2.ret, IntOf[flags[1]]), None)

\* Jail.chmod (--chmod dstpath mode)
cmd_chmod(w, p, mode) ==
    LET w0 == decode_mode(w, mode)
        w1 == Call("dstpath", <<w0, p>>)
    IN  Only([w2 \in {
              Call("dststat", <<w1, w1.ret, None>>)} |->
        IF Failed(w2) THEN w2
        ELSE IF w2.ret = NONE THEN Raise(w2, "AttributeError")
        ELSE Ret(Call("chmod", <<w2, w2.ret, w0.ret % 4096>>), None)])

\* Jail.chown (--chown dstpath user [group]): the call of Stat.chown passes
\* one argument more than it takes, which raises TypeError
cmd_chown(w, p, user, group) ==
    LET w1 == Call("dstpath", <<w, p>>)
    IN  IF Failed(w1) THEN w1
        ELSE IF ~userspec_ok(NameOf(user), NameOf(group)) THEN Raise(w1, "JailError")
        ELSE Only([ug \in {
                       userspec(NameOf(user), NameOf(group), -1, -1)} |->
                 Raise(dst_gid(dst_uid(w1, ug[1]), ug[2]), "TypeError")])

\* time.mktime(time.strptime(text, '%Y%m%d%H%M.%S')) of the time tokens
TimeOf == [t \in {"201201010000.05"} |-> 20]

\* Jail.utime (--touch dstpath [mtime])
cmd_utime(w, p, mtime) ==
    LET w1 == Call("dstpath", <<w, p>>)
        w2 == Call("dststat", <<w1, w1.ret, None>>)
    IN  IF Failed(w2) THEN w2
        ELSE IF w2.ret = NONE THEN Raise(w2, "AttributeError")
        ELSE IF mtime = NoArg THEN Ret(utime(w2, w2.ret, NoTime), None)
        ELSE IF Len(mtime) = 1 /\ mtime[1] \in DOMAIN TimeOf
             THEN Ret(utime(w2, w2.ret, TimeOf[mtime[1]]), None)
             ELSE Raise(w2, "ValueError")

----------------------------------------------------------------------------
(* Subprocesses and the loader (Jail.pcall, examine_system, ldlist) *)

RECURSIVE SetToSeq(_)
SetToSeq(S) ==
    IF S = {} THEN <<>>
    ELSE LET x == CHOOSE x \in S : TRUE IN <<x>> \o SetToSeq(S \ {x})

\* the exit status of a program of the host: the programs of host.fail
\* exit with status 1 and change nothing
ExitStatus(h, prog) == IF prog \in h.fail THEN 1 ELSE 0

\* Jail.pcall(args): Popen raises OSError when the program cannot be run;
\* communicate()[0] is the output, the exit status is not looked at. The
\* run is logged with its status and the number of system calls before it
pcall(w, prog, args) ==
    IF Failed(w) THEN w
    ELSE IF prog \notin w.host.programs THEN Raise(w, "OSError")
    ELSE [w EXCEPT !.hist.sub = Append(@, [prog |-> prog, args |-> args,
                                           status |-> ExitStatus(w.host, prog),
                                           at |-> Len(w.hist.sys)])]

\* the names dns_regex, thread_regex and 'ld-linux' match
DnsNames == {"libnss.so"}
ThreadNames == {"libpthread.so"}
LdLinuxNames == {"ld-linux.so"}

\* library_rx.search(path): a name starting with 'lib', a name ending in
\* '.so' or '.so.*' at or after it
LibStart == {"lib", "liba.so", "libb.so", "libc.so", "libd.so", "libe.so", "libnss.so",
             "libpthread.so"}
SoEnd == {"liba.so", "libb.so", "libc.so", "libd.so", "libe.so", "libnss.so", "libpthread.so",
          "ld-linux.so"}
library_rx_search(p) ==
    \E i \in 1..Len(p) : p[i] \in LibStart /\ \E j \in i..Len(p) : p[j] \in SoEnd

\* Stat._execbits
isexecutable(n) ==
    n.fmt = "file" /\ ((n.perm \div 64) % 2 = 1 \/ (n.perm \div 8) % 2 = 1 \/ n.perm % 2 = 1)

\* os.path.realpath(p)
realpath(d, p) ==
    LET r == KStat(d, PhysOf(p))
    IN  IF r.errno \in {"OK", "ENOENT"} THEN PathOf(r.path) ELSE abspath(p)

\* examine_system: one line (name, path) of the ldconfig output
examine_line(w, e) ==
    LET j == w.jail
        isld == j.ldlinux_so = NoPath /\ e.name \in LdLinuxNames
        seen == e.path \in {x[1] : x \in j.dns_map \cup j.thread_map}
    IN  Only([rp \in {
              realpath(w.disk, e.path)} |->
        [w EXCEPT !.jail =
            [j EXCEPT !.ldso_cache = @ \cup {<<e.name, e.path>>},
                      !.libdirs = @ \cup {dirname(e.path)},
                      !.ldlinux_so = IF isld THEN rp ELSE @,
                      !.dns_map = IF ~seen /\ e.name \in DnsNames
                                  THEN @ \cup {<<e.path, rp>>} ELSE @,
                      !.thread_map = IF ~seen /\ e.name \in ThreadNames
                                     THEN @ \cup {<<e.path, rp>>} ELSE @]]])

RECURSIVE examine_lines(_, _)
examine_lines(w, es) ==
    IF es = <<>> THEN w ELSE Call("examine_lines", <<examine_line(w, Head(es)), Tail(es)>>)

\* examine_system: the entries of one library directory
RECURSIVE examine_files(_, _, _)
examine_files(w, srcdir, names) ==
    IF Failed(w) \/ names = <<>> THEN w
    ELSE LET sp == join(srcdir, <<Head(names)>>)
         IN  Only([w1 \in {
                   srcstat(w, sp)} |->
         Only([r \in {
                  KLstat(w1.disk, PhysOf(sp))} |->
         LET w2 == IF Failed(w1) THEN w1
                   ELSE IF w1.ret = NONE THEN Raise(w1, "AttributeError")
                   ELSE IF w1.nodes[w1.ret].fmt # "link" THEN w1
                   ELSE IF r.errno # "OK" \/ w1.disk[r.path].fmt # "link"
                        THEN Raise(w1, "OSError")
                   ELSE [w1 EXCEPT !.jail.solinks =
                            @ \cup {<<join(srcdir, w1.disk[r.path].link), sp>>}]
         IN  Call("examine_files", <<w2, srcdir, Tail(names)>>)])])

RECURSIVE examine_dirs(_, _)
examine_dirs(w, dirs) ==
    IF Failed(w) \/ dirs = <<>> THEN w
    ELSE Only([w1 \in {
                   listdir_path(w, 1, Head(dirs))} |->
             examine_dirs(IF Failed(w1) THEN w1 ELSE Call("examine_files", <<w1, Head(dirs), w1.ret>>),
                          Tail(dirs))])

\* Jail.examine_system
examine_system(w) ==
    IF Failed(w) THEN w
    ELSE LET w1 == pcall(w, <<"", "sbin", "ldconfig">>, <<>>)
         IN  Only([w2 \in {
                   IF Failed(w1) THEN w1
                   ELSE Call("examine_lines", <<[w1 EXCEPT !.jail.libdirs = {}, !.jail.dns_map = {},
                                                 !.jail.thread_map = {},
                                                 !.hist.exa = @ + 1], w1.host.ldconfig>>)} |->
         LET w3 == IF Failed(w2) THEN w2
                   ELSE [w2 EXCEPT !.jail.dns_files = {x[2] : x \in w2.jail.dns_map},
                                   !.jail.thread_files = {x[2] : x \in w2.jail.thread_map}]
         IN  Ret(examine_dirs(w3, IF Failed(w3) THEN <<>> ELSE SetToSeq(w3.jail.libdirs)), None)])

\* Jail.ldlist(path): the set of paths the loader lists for path
ldlist(w, p) ==
    IF Failed(w) THEN w
    ELSE IF p \in DOMAIN w.jail.ldlist_cache THEN Ret(w, w.jail.ldlist_cache[p])
    ELSE IF ~IsAbs(p) THEN Raise(w, "ValueError")
    ELSE LET w1 == pcall(w, w.jail.ldlinux_so, p)
         IN  IF Failed(w1) THEN w1
             ELSE LET names == IF p \in DOMAIN w1.host.ldlist THEN w1.host.ldlist[p] ELSE {}
                      known(n) == {x[2] : x \in {y \in w1.jail.ldso_cache : y[1] = n}}
                  IN  Only([result \in {
                                UNION {IF known(n) = {} THEN {<<n>>} ELSE known(n) : n \in names}} |->
                      Ret([w1 EXCEPT !.jail.ldlist_cache = (p :> result) @@ @,
                                     !.jail.ldlist_count = @ + 1,
                                     !.hist.ldl = Append(@, p)], result)])

----------------------------------------------------------------------------
(* Jail.add_path and the --add commands *)

RECURSIVE add_path(_, _, _, _)

\* a for loop of add_path over paths
RECURSIVE add_paths(_, _, _, _)
add_paths(w, paths, recurse, quick) ==
    IF Failed(w) \/ paths = <<>> THEN w
    ELSE add_paths(add_path(w, Head(paths), recurse, quick), Tail(paths), recurse, quick)

\* add_path, the branch of a symlink source
add_link(w, src, dst, recurse, quick) ==
    Only([w1 \in {
              get(NoLinks(w), src, <<"">>, root(w.nodes, src))} |->
        IF Failed(w1) THEN w1
        ELSE IF w1.ret # NONE /\ Truthy(w1.nodes[w1.ret])
        THEN IF ~HasPath(w1.nodes, w1.ret) THEN Raise(w1, "AttributeError")
             ELSE add_path(w1, PathOf(path(w1.nodes, w1.ret)), recurse, quick)
        ELSE IF w1.nodes[dst].fmt = "link"
        THEN Only([w2 \in {
                       get(NoLinks(w1), dst, <<"">>, root(w1.nodes, dst))} |->
                 IF Failed(w2) THEN w2
                 ELSE IF w2.ret = NONE THEN Raise(w2, "AttributeError")
                 ELSE IF Truthy(w2.nodes[w2.ret]) THEN w2
                 ELSE IF w2.nodes[w2.ret].fmt = "dir" THEN rmdir(w2, w2.ret)
                 ELSE remove(w2, w2.ret)])
        ELSE w1])

\* add_path, the branch of a regular source that is executable or a library
add_exec(w, sp, recurse, quick) ==
    Only([w1 \in {
              IF w.jail.ldlinux_so = NoPath THEN examine_system(w) ELSE w} |->
    LET dns == ~Failed(w1) /\ ~w1.jail.dns_added
               /\ (cfg.dns \/ sp \in w1.jail.dns_files)
    IN  Only([w2 \in {
              IF dns
              THEN add_paths([w1 EXCEPT !.jail.dns_added = TRUE],
                             SetToSeq(w1.jail.dns_files), recurse, quick)
              ELSE w1} |->
    LET thr == ~Failed(w2) /\ ~w2.jail.thread_added /\ sp \in w2.jail.thread_files
    IN  Only([w3 \in {
              IF thr
              THEN add_paths([w2 EXCEPT !.jail.thread_added = TRUE],
                             SetToSeq(w2.jail.thread_files), recurse, quick)
              ELSE w2} |->
    Only([w4 \in {
              IF Failed(w3) THEN w3
              ELSE add_paths(w3, SetToSeq({x[2] : x \in {y \in w3.jail.solinks : y[1] = sp}}),
                             recurse, quick)} |->
    Only([w5 \in {
              ldlist(w4, sp)} |->
        InOrder(<<w1, w2, w3, w4, w5,
                  IF Failed(w5) THEN w5 ELSE add_paths(w5, SetToSeq(w5.ret), recurse, quick)>>)])])])])])

\* an end of add_path that clones no directory: the node of the directory
\* stays as the lookup made it
add_clone_files_only(w, sp, src, dst, recurse, quick) ==
    Only([same \in {
                Failed(w) \/ src = dst \/ cmp(w.nodes[src], w.nodes[dst]) = 0
                \/ w.nodes[src].fmt = "dir"} |->
    Only([w1 \in {
              IF same THEN w ELSE clone_stat(w, src, dst)} |->
    Only([down \in {
                /\ ~same /\ ~Failed(w1) /\ w1.ret
                /\ ~(cmp(w1.nodes[src], w1.nodes[dst]) # 0
                     /\ (w1.nodes[src].size = w1.nodes[dst].size
                         \/ w1.nodes[src].fmt # "dir"))
                /\ w1.nodes[src].fmt = "dir" /\ recurse} |->
    LET w2 == IF down THEN Call("listdir", <<w1, src>>) ELSE w1
    IN  InOrder(<<w1, w2,
                  IF down /\ ~Failed(w2)
                  THEN add_paths(w2, [i \in 1..Len(w2.ret) |-> join(sp, <<w2.ret[i]>>)],
                                 recurse, quick)
                  ELSE Ret(w2, None)>>)])])])

\* add_path, the comparison and the clone at its end: nothing to do for the
\* same or an equal node; a directory that was cloned is listed and its
\* entries are added when recurse is set
add_clone(w, sp, src, dst, recurse, quick) ==
    Only([same \in {
                Failed(w) \/ src = dst \/ cmp(w.nodes[src], w.nodes[dst]) = 0} |->
    Only([w1 \in {
              IF same THEN w ELSE clone_stat(w, src, dst)} |->
    Only([down \in {
                /\ ~same /\ ~Failed(w1) /\ w1.ret
                /\ ~(cmp(w1.nodes[src], w1.nodes[dst]) # 0
                     /\ (w1.nodes[src].size = w1.nodes[dst].size
                         \/ w1.nodes[src].fmt # "dir"))
                /\ w1.nodes[src].fmt = "dir" /\ recurse} |->
    LET w2 == IF down THEN Call("listdir", <<w1, src>>) ELSE w1
    IN  InOrder(<<w1, w2,
                  IF down /\ ~Failed(w2)
                  THEN add_paths(w2, [i \in 1..Len(w2.ret) |-> join(sp, <<w2.ret[i]>>)],
                                 recurse, quick)
                  ELSE Ret(w2, None)>>)])])])

\* the node self._jailhome.lstat(srcpath, fmt) returned is logged with its path
LogDst(w, sp) ==
    IF Failed(w) \/ w.ret = NONE \/ ~HasPath(w.nodes, w.ret) THEN w
    ELSE [w EXCEPT !.hist.dst = Append(@, [src |-> sp, at |-> path(w.nodes, w.ret)])]

\* Jail.add_path(srcpath, recurse, quick)
add_path(w, sp0, recurse, quick) ==
    LET w1 == Call("srcpath", <<w, sp0>>)
        sp == w1.ret
        skip == Failed(w1) \/ sp \in w1.jail.src_done
        w2 == IF skip THEN w1 ELSE [w1 EXCEPT !.jail.src_done = @ \cup {sp}]
    IN  Only([w3 \in {
              IF ~skip /\ dirname(sp) \notin w2.jail.src_done
              THEN add_path(w2, dirname(sp), FALSE, FALSE) ELSE w2} |->
    Only([w4 \in {
              IF skip THEN w3 ELSE srcstat(w3, sp)} |->
    LET src == w4.ret
    IN  Only([w5 \in {
              IF skip \/ Failed(w4) THEN w4
              ELSE IF src = NONE THEN Raise(w4, "JailError")
              ELSE IF w4.jail.jailhome # NONE THEN w4
              ELSE IF ~HasGroup THEN Raise(w4, "JailError")
              ELSE LET m == makedirs(w4, 1, PathOf(jailhome), w4.nodes[1].perm)
                   IN  IF Failed(m) THEN m
                       ELSE [m EXCEPT !.jail.jailhome = m.ret]} |->
    Only([w6 \in {
              IF skip \/ Failed(w5) THEN w5
              ELSE LogDst(lstat(w5, w5.jail.jailhome, sp, w5.nodes[src].fmt), sp)} |->
    LET dst == w6.ret
    IN  Only([w7 \in {
              IF skip \/ Failed(w6) THEN w6
              ELSE IF w6.nodes[src].fmt = "link"
              THEN add_link(w6, src, dst, recurse, quick)
              ELSE IF w6.nodes[src].fmt = "file"
                      /\ (isexecutable(w6.nodes[src]) \/ library_rx_search(sp))
              THEN add_exec(w6, sp, recurse, quick)
              ELSE w6} |->
        InOrder(<<w1, w3, w4, w5, w6, w7,
                  IF skip THEN Ret(w1, None)
                  ELSE add_clone(w7, sp, src, dst, recurse, quick)>>)])])])])])

\* Jail.add (--add paths...), add_recurse (--add-recurse [--quick] paths...)
cmd_add(w, paths) == Ret(add_paths(w, paths, FALSE, FALSE), None)
cmd_add_recurse(w, paths) ==
    LET quick == \E i \in 1..Len(paths) : paths[i] = <<"--quick">>
        first == IF quick THEN CHOOSE i \in 1..Len(paths) :
                                  paths[i] = <<"--quick">>
                                  /\ \A j \in 1..(i - 1) : paths[j] # <<"--quick">>
                 ELSE 0
        rest == [i \in 1..(Len(paths) - (IF quick THEN 1 ELSE 0)) |->
                    IF quick /\ i >= first THEN paths[i + 1] ELSE paths[i]]
    IN  Ret(add_paths(w, rest, TRUE, quick), None)

\* Jail.clone_recurse as the command --clone-recurse srcpath dstpath [quick]:
\* a '--quick' in the first or second place shifts the arguments
cmd_clone_recurse(w, a, b, q) ==
    LET sp0 == IF a = <<"--quick">> THEN b ELSE a
        dp0 == IF a = <<"--quick">> \/ b = <<"--quick">> THEN q ELSE b
        w1 == Call("srcpath", <<w, sp0>>)
    IN  IF dp0 = NoArg THEN Raise(srcstat(w1, w1.ret), "AttributeError")
        ELSE Call("clone_recurse", <<w, sp0, dp0, q # NoArg>>)

\* Jail.clone_from (--clone-from srcpath dstpath files...)
RECURSIVE cmd_clone_from(_, _, _, _)
cmd_clone_from(w, sp, dp, files) ==
    IF Failed(w) \/ files = <<>> THEN Ret(w, None)
    ELSE cmd_clone_from(Call("clone", <<w, join(sp, Head(files)), join(dp, Head(files))>>),
                        sp, dp, Tail(files))

\* Jail.add_from (--add-from srcdir files...)
cmd_add_from(w, srcdir, files) ==
    Ret(add_paths(w, [i \in 1..Len(files) |-> join(srcdir, files[i])], FALSE, FALSE), None)

----------------------------------------------------------------------------
(* Mounting (Jail.bindopts, mounts, mount, umount, subcall) *)

\* the option lists of the mount option strings: lower(), split at ',',
\* each part stripped
OptsOf == [o \in {"auto", "rw", "ro", "exec,rw", "rw,bind", "ro,bind", "ro,rw", "rw,ro",
                  "exec,noexec", "noexec,exec", "rw,noexec,ro,exec", "RW, ro", "ro,,rw",
                  "noro,rw", "suid,exec", "nonosuid", "SUID, rw"} |->
             CASE o = "auto" -> <<"auto">> [] o = "rw" -> <<"rw">> [] o = "ro" -> <<"ro">>
               [] o = "exec,rw" -> <<"exec", "rw">> [] o = "rw,bind" -> <<"rw", "bind">>
               [] o = "ro,bind" -> <<"ro", "bind">>
               [] o = "ro,rw" -> <<"ro", "rw">> [] o = "rw,ro" -> <<"rw", "ro">>
               [] o = "exec,noexec" -> <<"exec", "noexec">>
               [] o = "noexec,exec" -> <<"noexec", "exec">>
               [] o = "rw,noexec,ro,exec" -> <<"rw", "noexec", "ro", "exec">>
               [] o = "RW, ro" -> <<"rw", "ro">> [] o = "ro,,rw" -> <<"ro", "", "rw">>
               [] o = "noro,rw" -> <<"noro", "rw">> [] o = "suid,exec" -> <<"suid", "exec">>
               [] o = "nonosuid" -> <<"nonosuid">> [] o = "SUID, rw" -> <<"suid", "rw">>]

\* 'no' + opt and opt[2:] on the option names
Negated == [o \in {"exec", "suid", "atime", "dev", "bind", "remount", "ro", "rw",
                   "nosuid"} |->
              CASE o = "exec" -> "noexec" [] o = "suid" -> "nosuid" [] o = "atime" -> "noatime"
                [] o = "dev" -> "nodev" [] o = "bind" -> "nobind" [] o = "remount" -> "noremount"
                [] o = "ro" -> "noro" [] o = "rw" -> "norw" [] o = "nosuid" -> "nonosuid"]
StartsWithNo(o) == \E x \in DOMAIN Negated : Negated[x] = o
Positive(o) == CHOOSE x \in DOMAIN Negated : Negated[x] = o

\* a loop of bindopts in which an option given does not take its opposite
\* out of the set
RECURSIVE bindopts_loop_adding(_, _)
bindopts_loop_adding(opts, os) ==
    IF os = <<>> THEN opts
    ELSE bindopts_loop_adding(IF Head(os) = "" \/ Head(os) = "suid" THEN opts
                              ELSE opts \cup {Head(os)}, Tail(os))

\* the loop of bindopts over the options
RECURSIVE bindopts_loop(_, _)
bindopts_loop(opts, os) ==
    IF os = <<>> THEN opts
    ELSE LET o == Head(os)
             opts1 == IF o = "" \/ o = "suid" THEN opts
                      ELSE (CASE o = "rw" -> opts \ {"ro"}
                              [] o = "ro" -> opts \ {"rw"}
                              [] o \notin {"rw", "ro"} /\ StartsWithNo(o) -> opts \ {Positive(o)}
                              [] OTHER -> opts \ {IF o \in DOMAIN Negated THEN Negated[o] ELSE "no"})
                           \cup {o}
         IN  bindopts_loop(opts1, Tail(os))

\* a bindopts() that asks the write path first
bindopts_writable_first(sp, os) ==
    LET opts0 == IF sp # NoPath
                 THEN {"noexec", "ro", "nosuid", "remount", "bind", "noatime"}
                 ELSE {"exec", "rw", "suid", "remount", "noatime"}
        os1 == IF os = <<>> \/ os = <<"auto">>
               THEN IF sp # NoPath /\ writepath_match(cfg.writepath, PhysOf(sp))
                    THEN <<"noexec", "rw">>
                    ELSE IF sp # NoPath /\ IsPrefix(JAILHOME, PhysOf(sp)) THEN <<"exec", "ro">>
                    ELSE <<"noexec", "ro">>
               ELSE os
    IN  bindopts_loop(opts0, os1)

\* Jail.bindopts(srcpath, bindopts): srcpath a path string or NoPath
\* (None), bindopts an option list
bindopts(sp, os) ==
    LET opts0 == IF sp # NoPath
                 THEN {"noexec", "ro", "nosuid", "remount", "bind", "noatime"}
                 ELSE {"exec", "rw", "suid", "remount", "noatime"}
        os1 == IF os = <<>> \/ os = <<"auto">>
               THEN IF sp # NoPath /\ IsPrefix(JAILHOME, PhysOf(sp)) THEN <<"exec", "ro">>
                    ELSE IF sp # NoPath /\ writepath_match(cfg.writepath, PhysOf(sp))
                         THEN <<"noexec", "rw">>
                    ELSE <<"noexec", "ro">>
               ELSE os
    IN  bindopts_loop(opts0, os1)

\* a subcall() that runs the program in test mode too
subcall_always(w, prog, args) ==
    IF Failed(w) THEN w
    ELSE Ret(pcall(w, prog, args), None)

\* Jail.subcall(*args): the program prog run on the mount point dst
subcall(w, prog, args) ==
    IF Failed(w) THEN w
    ELSE IF cfg.test
    THEN Ret([w EXCEPT !.hist.out = Append(@, [call |-> Last(prog), path |-> PhysOf(args.dst)])],
             None)
    ELSE Ret(pcall(w, prog, args), None)

\* Jail.mounts(): the lines of /etc/mtab at or below jailmount, as a
\* sequence of [dst, src, opts] in the order of first appearance, the last
\* line of a mount point giving its value
RECURSIVE mounts_loop(_, _)
mounts_loop(acc, lines) ==
    IF lines = <<>> THEN acc
    ELSE LET l == Head(lines)
             e == [dst |-> l.dst, src |-> l.src, opts |-> bindopts(NoPath, l.opts)]
             at == {i \in 1..Len(acc) : acc[i].dst = l.dst}
             acc1 == IF ~(l.bind /\ IsPrefix(jailmount, PhysOf(l.dst))) THEN acc
                     ELSE IF at = {} THEN Append(acc, e)
                     ELSE [i \in 1..Len(acc) |-> IF i \in at THEN e ELSE acc[i]]
         IN  mounts_loop(acc1, Tail(lines))

mounts(w) ==
    IF Failed(w) THEN w
    ELSE LET r == KStat(w.disk, <<"etc", "mtab">>)
         IN  IF r.errno # "OK" \/ w.disk[r.path].fmt = "dir" THEN Raise(w, "IOError")
             ELSE IF (\E i \in 1..Len(w.host.mtab) : w.host.mtab[i].bind) /\ ~HasUser
                  THEN Raise(w, "JailError")
             ELSE Ret(w, mounts_loop(<<>>, w.host.mtab))

\* a sort that gives the longest paths first when rev is not set
RECURSIVE SortPathsBackwards(_, _)
SortPathsBackwards(S, rev) ==
    IF S = {} THEN <<>>
    ELSE LET x == CHOOSE x \in S : \A y \in S :
                     IF rev THEN Len(x) * 1000 + StrLen(x) <= Len(y) * 1000 + StrLen(y)
                     ELSE Len(x) * 1000 + StrLen(x) >= Len(y) * 1000 + StrLen(y)
         IN  <<x>> \o SortPathsBackwards(S \ {x}, rev)

\* sorted(paths, key=len) then sort(key=count('/')), descending when rev
SortKey(p) == Len(p) * 1000 + StrLen(p)
RECURSIVE SortPaths(_, _)
SortPaths(S, rev) ==
    IF S = {} THEN <<>>
    ELSE LET x == CHOOSE x \in S : \A y \in S :
                     IF rev THEN SortKey(x) >= SortKey(y) ELSE SortKey(x) <= SortKey(y)
         IN  <<x>> \o SortPaths(S \ {x}, rev)

\* Jail.umount (--umount)
RECURSIVE umount_loop(_, _)
umount_loop(w, dirs) ==
    IF Failed(w) \/ dirs = <<>> THEN w
    ELSE LET w1 == Call("dstpath", <<w, Head(dirs)>>)
             w2 == Call("subcall", <<w1, <<"", "bin", "umount">>, [dst |-> w1.ret, src |-> NoPath, opts |-> {},
                                          lazy |-> cfg.lazy]>>)
             w3 == IF Failed(w2) \/ cfg.test \/ ExitStatus(w2.host, <<"", "bin", "umount">>) # 0
                   THEN w2
                   ELSE [w2 EXCEPT !.host.mtab =
                            SelectSeq(@, LAMBDA l : l.dst # w1.ret)]
         IN  Call("umount_loop", <<w3, Tail(dirs)>>)

umount(w) ==
    LET w1 == Call("mounts", <<w>>)
        w2 == IF Failed(w1) THEN w1
              ELSE Call("umount_loop", <<w1, SortPaths({w1.ret[i].dst : i \in 1..Len(w1.ret)}, TRUE)>>)
        w3 == IF Failed(w2) THEN w2
              ELSE IF ~HasUser THEN Raise(w2, "JailError")
              ELSE Call("dststat", <<w2, PathOf(jailmount), None>>)
    IN  InOrder(<<w1, w2, w3,
                  IF Failed(w3) \/ w3.ret = NONE THEN Ret(w3, None)
                  ELSE IF Truthy(w3.nodes[w3.ret]) THEN rmdir(w3, w3.ret) ELSE Ret(w3, None)>>)

\* Jail.mount, one entry (srcpath, bindopts, path) of cfg.binds; mts is what
\* mounts() gave, binds the mounts planned so far as [dst, src, opts]
mount_bind(w, b, mts, binds) ==
    IF Failed(w) THEN w
    ELSE LET w1 == Call("srcpath", <<w, b.src>>)
             sp == w1.ret
             w2 == srcstat(w1, sp)
             src == w2.ret
             bo == bindopts(sp, b.opts)
             w3 == Call("dstpath", <<w2, PathOf(jailmount) \o b.path>>)
             dp == w3.ret
             w4 == Call("dststat", <<w3, dp, None>>)
             dst == w4.ret
             w5 == Call("dstpath", <<w4, PathOf(jailhome) \o b.path>>)
             ps == PhysOf(sp)
             pd == PhysOf(dp)
             below == {i \in 1..Len(mts) : IsPrefix(pd, PhysOf(mts[i].dst))}
             m == mts[CHOOSE i \in below : \A j \in below : i <= j]
             msg0 == IF below = {} THEN None
                     ELSE IF dp # m.dst THEN "subdir"
                     ELSE IF m.src # sp THEN "already"
                     ELSE IF bo = m.opts THEN "" ELSE None
             dtruthy == dst # NONE /\ Truthy(w5.nodes[dst])
             struthy == src # NONE /\ Truthy(w5.nodes[src])
             msg == IF msg0 # None THEN msg0
                    ELSE IF IsPrefix(pd, ps) THEN "parent of srcpath"
                    ELSE IF dtruthy /\ w5.nodes[dst].fmt # "dir" THEN "dstpath must be directory"
                    ELSE IF ~struthy THEN "srcpath not found"
                    ELSE IF w5.nodes[src].fmt # "dir" THEN "srcpath must be directory"
                    ELSE IF IsPrefix(jailhome, ps) /\ ps # jailhome THEN "inside jailhome"
                    ELSE IF IsPrefix(jailmount, ps) /\ ps # jailmount THEN "inside jailmount"
                    ELSE IF IsPrefix(ps, jailmount) /\ ps # jailmount THEN "parent of jailmount"
                    ELSE IF IsPrefix(ps, jailhome) /\ ps # jailhome THEN "parent of jailhome"
                    ELSE IF \E i \in 1..Len(binds) : binds[i].dst = dp THEN "replaced"
                    ELSE IF \E i \in 1..Len(mts) : mts[i].dst = dp THEN "change option"
                    ELSE None
             planned == msg \in {None, "replaced", "change option"} /\ msg0 = None
             e == [dst |-> dp, src |-> sp, opts |-> bo]
             binds1 == IF ~planned THEN binds
                       ELSE IF \E i \in 1..Len(binds) : binds[i].dst = dp
                       THEN [i \in 1..Len(binds) |-> IF binds[i].dst = dp THEN e ELSE binds[i]]
                       ELSE Append(binds, e)
             nofmt == msg = "srcpath must be directory" /\ dst = NONE
             w6 == IF Failed(w5) THEN w5
                   ELSE IF nofmt THEN Raise(w5, "AttributeError")
                   ELSE IF ~cfg.test THEN w5
                   ELSE [w5 EXCEPT !.hist.out = Append(@, [call |-> "--bind", path |-> ps])]
             w7 == IF Failed(w6) \/ ~(msg \in {None, ""} /\ ~dtruthy) THEN w6
                   ELSE IF src = NONE THEN Raise(w6, "AttributeError")
                   ELSE IF ~HasPath(w6.nodes, src) THEN Raise(w6, "AttributeError")
                   ELSE IF path(w6.nodes, src) # ps THEN Raise(w6, "AssertionError")
                   ELSE Call("clone", <<w6, sp, w5.ret>>)
         IN  InOrder(<<w1, w2, w3, w4, w5, w6, w7, Ret(w7, binds1)>>)

RECURSIVE mount_binds(_, _, _, _)
mount_binds(w, bs, mts, binds) ==
    IF Failed(w) THEN w
    ELSE IF bs = <<>> THEN Ret(w, binds)
    ELSE LET w1 == Call("mount_bind", <<w, Head(bs), mts, binds>>)
         IN  IF Failed(w1) THEN w1 ELSE Call("mount_binds", <<w1, Tail(bs), mts, w1.ret>>)

\* the options /bin/mount -o leaves in the line of the mount point in
\* /etc/mtab: those given but remount and the defaults exec and suid
MtabOpts(opts) == SetToSeq(opts \ {"remount", "exec", "suid"})

\* Jail.mount, the mount commands for the planned mount point paths
RECURSIVE mount_calls(_, _, _, _)
mount_calls(w, paths, mts, binds) ==
    IF Failed(w) \/ paths = <<>> THEN w
    ELSE LET dp == Head(paths)
             b == binds[CHOOSE i \in 1..Len(binds) : binds[i].dst = dp]
             isnew == ~\E i \in 1..Len(mts) : mts[i].dst = dp
             a1 == [dst |-> dp, src |-> b.src, opts |-> {"--bind"}, lazy |-> FALSE]
             a2 == [dst |-> dp, src |-> NoPath, opts |-> b.opts, lazy |-> FALSE]
             w1 == IF isnew THEN Call("subcall", <<w, <<"", "bin", "mount">>, a1>>) ELSE w
             w2 == IF Failed(w1) \/ cfg.test \/ ~isnew
                      \/ ExitStatus(w1.host, <<"", "bin", "mount">>) # 0
                   THEN w1
                   ELSE [w1 EXCEPT !.host.mtab =
                            Append(@, [dst |-> dp, src |-> b.src, bind |-> TRUE,
                                       opts |-> <<"rw", "bind">>])]
             w3 == Call("subcall", <<w2, <<"", "bin", "mount">>, a2>>)
             w4 == IF Failed(w3) \/ cfg.test \/ ExitStatus(w3.host, <<"", "bin", "mount">>) # 0
                   THEN w3
                   ELSE [w3 EXCEPT !.host.mtab =
                            [i \in 1..Len(@) |->
                                IF @[i].dst = dp THEN [@[i] EXCEPT !.opts = MtabOpts(b.opts)]
                                ELSE @[i]]]
         IN  Call("mount_calls", <<w4, Tail(paths), mts, binds>>)

\* Jail.mount (--mount)
mount(w) ==
    IF Failed(w) THEN w
    ELSE LET w0 == srcstat(Step(w, "mount", None), <<"", "">>)
             r == w0.nodes[1]
             w1 == IF ~HasGroup THEN Raise(w0, "JailError")
                   ELSE Jail_mkdir(w0, PathOf(jailhome), r.perm, FALSE, r.uid, r.gid)
             w2 == IF Failed(w1) THEN w1
                   ELSE IF ~HasUser THEN Raise(w1, "JailError")
                   ELSE Jail_mkdir(w1, PathOf(jailmount), r.perm, FALSE, r.uid, r.gid)
             w3 == Call("mounts", <<w2>>)
             mts == w3.ret
             w4 == Call("mount_binds", <<w3, cfg.binds, mts, <<>> >>)
         IN  InOrder(<<w0, w1, w2, w3, w4,
                       IF Failed(w4) THEN w4
                       ELSE Ret(Call("mount_calls", <<w4, SortPaths({w4.ret[i].dst : i \in 1..Len(w4.ret)},
                                                          FALSE),
                                            mts, w4.ret>>), None)>>)

----------------------------------------------------------------------------
(* Removal of the jail (Jail.clean_tmp, Jail.clean) *)

RECURSIVE rm_rf_paths(_, _, _)
rm_rf_paths(w, dp, names) ==
    IF Failed(w) \/ names = <<>> THEN w
    ELSE rm_rf_paths(Call("rm_rf", <<w, 1, join(dp, <<Head(names)>>)>>), dp, Tail(names))

\* Jail.clean_tmp (--clean)
clean_tmp(w) ==
    IF Failed(w) THEN w
    ELSE IF ~HasUser THEN Raise(w, "JailError")
    ELSE LET w1 == Call("dstpath", <<w, PathOf(jailpriv)>>)
         IN  Only([w2 \in {
                   listdir_path(w1, 1, w1.ret)} |->
             IF Failed(w2) THEN w2 ELSE Ret(rm_rf_paths(w2, w1.ret, w2.ret), None)])

\* a clean() that removes {jailhome} before it unmounts
clean_home_first(w) ==
    LET w1 == IF Failed(w) THEN w
              ELSE IF ~HasGroup THEN Raise(w, "JailError")
              ELSE Call("rm_rf", <<w, 1, PathOf(jailhome)>>)
        w2 == Call("umount", <<w1>>)
    IN  IF Failed(w2) THEN w2
        ELSE IF ~HasUser THEN Raise(w2, "JailError")
        ELSE Ret(Call("rm_rf", <<w2, 1, PathOf(jailpriv)>>), None)

\* Jail.clean (--remove)
clean(w) ==
    LET w1 == Call("umount", <<w>>)
        w2 == IF Failed(w1) THEN w1
              ELSE IF ~HasGroup THEN Raise(w1, "JailError")
              ELSE Call("rm_rf", <<w1, 1, PathOf(jailhome)>>)
    IN  IF Failed(w2) THEN w2
        ELSE IF ~HasUser THEN Raise(w2, "JailError")
        ELSE Ret(Call("rm_rf", <<w2, 1, PathOf(jailpriv)>>), None)

----------------------------------------------------------------------------
(* The end of the run (Jail.update_passwd, all_done) and Jail.execute *)

\* the size of the text written for a set of accounts
TextSize(ids) == 10 * Cardinality(ids)

\* update_passwd, reading one of the two files of the jail when its node
\* is there: which is "pwfile" or "grfile"
read_file(w, dp, dst, which) ==
    IF Failed(w) THEN w
    ELSE Only([r \in {
                  KStat(w.disk, PhysOf(dp))} |->
             IF ~Truthy(w.nodes[dst]) THEN w
             ELSE IF r.errno # "OK" \/ w.disk[r.path].fmt = "dir" THEN Raise(w, "IOError")
             ELSE IF which = "pwfile"
             THEN [w EXCEPT !.jail.dst_uids = @ \cup (w.host.pwfile \cap PwUids),
                            !.jail.dst_gids = @ \cup {PwGid(u) : u \in w.host.pwfile \cap PwUids}]
             ELSE [w EXCEPT !.jail.dst_gids = @ \cup (w.host.grfile \cap GrGids)]])

\* update_passwd, writing one of the two files, then chmod and chown as the
\* file of the host (/etc/passwd or /etc/group)
write_file(w, dp, dst, which, name) ==
    IF Failed(w) THEN w
    ELSE LET ids == IF which = "pwfile" THEN w.jail.dst_uids ELSE w.jail.dst_gids
         IN  Only([g \in {
                  writable(w, PhysOf(dp), "cat")} |->
         Only([w2 \in {
                   IF Failed(g) \/ ~g.ret THEN g
                   ELSE Only([o \in {
                                 syscall(g, "open_wb", PhysOf(dp), [size |-> TextSize(ids)])} |->
                            IF Failed(o) THEN o ELSE [o EXCEPT !.host[which] = ids]])} |->
         Only([w3 \in {
                   srcstat(w2, <<"", "etc", name>>)} |->
             InOrder(<<w2, w3,
                       IF Failed(w3) THEN w3
                       ELSE IF w3.ret = NONE THEN Raise(w3, "AttributeError")
                       ELSE LET sn == w3.nodes[w3.ret]
                            IN  Call("chown", <<Call("chmod", <<w3, dst, sn.perm>>), dst, sn.uid, sn.gid>>)>>)])])])

\* Jail.update_passwd
update_passwd(w) ==
    IF Failed(w) \/ w.jail.updated_passwd \/ ~cfg.passwd THEN w
    ELSE IF ~HasGroup THEN Raise(w, "JailError")
    ELSE LET w0 == Call("dststat", <<w, PathOf(jailhome), None>>)
         IN  IF Failed(w0) \/ w0.ret = NONE THEN w0
             ELSE IF ~Truthy(w0.nodes[w0.ret]) THEN w0
             ELSE LET w1 == Call("clone", <<[w0 EXCEPT !.jail.updated_passwd = TRUE],
                                  <<"", "etc">>, <<"{jailhome}", "etc">>>>)
                      pp == PathOf(jailhome \o <<"etc", "passwd">>)
                      gp == PathOf(jailhome \o <<"etc", "group">>)
                      w2 == Call("dststat", <<w1, pp, "file">>)
                      w3 == Call("dststat", <<w2, gp, "file">>)
                  IN  Only([w4 \in {
                            read_file(read_file(w3, pp, w2.ret, "pwfile"), gp, w3.ret, "grfile")} |->
                  Only([w5 \in {
                            write_file(w4, pp, w2.ret, "pwfile", "passwd")} |->
                      InOrder(<<w1, w2, w3, w4, w5,
                                write_file(w5, gp, w3.ret, "grfile", "group")>>)])])

\* Jail.all_done: an IOError or OSError of update_passwd becomes JailError
all_done(w) ==
    IF Failed(w) THEN w
    ELSE LET w1 == [Step(w, "all_done", None) EXCEPT !.hist.alldone = @ + 1]
         IN  Only([w2 \in {
                   update_passwd(w1)} |->
             IF w2.err \in {"IOError", "OSError"} THEN [w2 EXCEPT !.err = "JailError"]
             ELSE Ret(w2, None)])

\* Jail.execute that goes on with whatever ids the lookups gave
execute_unguarded(w, args) ==
    IF Failed(w) THEN w
    ELSE IF cfg.exec_chuid # None
            /\ ~userspec_ok(namespec(cfg.exec_chuid)[1], namespec(cfg.exec_chuid)[2])
    THEN Raise(w, "JailError")
    ELSE Only([ug \in {
                   IF cfg.exec_chuid # None
                   THEN userspec(namespec(cfg.exec_chuid)[1], namespec(cfg.exec_chuid)[2],
                                 NoneId, NoneId)
                   ELSE <<-1, -1>>} |->
         LET gid0 == IF cfg.gid < 1 THEN EGid ELSE cfg.gid
             uid0 == IF cfg.uid < 1 THEN EUid ELSE cfg.uid
             w1 == IF ug[2] < 1 THEN dst_gid(w, gid0) ELSE w
             exec_gid == IF ug[2] >= 1 THEN ug[2] ELSE IF gid0 \in GrGids THEN gid0 ELSE -1
         IN  Only([w2 \in {
                   IF ug[1] < 1 THEN dst_uid(w1, uid0) ELSE w1} |->
         LET exec_uid == IF ug[1] >= 1 THEN ug[1] ELSE IF uid0 \in PwUids THEN uid0 ELSE -1
         IN  Only([w3 \in {
                   IF Failed(w2) THEN w2
                   ELSE IF exec_uid \notin PwUids THEN Raise(w2, "KeyError")
                   ELSE IF ~subprops_ok(cfg.exec_chdir) THEN Raise(w2, "JailError")
                   ELSE w2} |->
         LET exec_chdir == abspath(subprops(cfg.exec_chdir))
             w4 == Call("mount", <<Call("all_done", <<w3>>)>>)
         IN  Only([w5 \in {
                   IF Failed(w4) THEN w4
                   ELSE IF exec_uid \notin w4.jail.dst_uids THEN Raise(w4, "KeyError")
                   ELSE IF \E i \in 1..Len(args) : ~subprops_ok(args[i]) THEN Raise(w4, "JailError")
                   ELSE w4} |->
         Only([w6 \in {
                   umask(w5, cfg.exec_umask)} |->
         Only([w7 \in {
                   chdir(w6, 1, PathOf(jailmount) \o Tail(exec_chdir))} |->
         Only([w8 \in {
                   chroot(w7, 1, PathOf(jailmount))} |->
         Only([w9 \in {
                   setuid(setgid(setgroups(w8, {exec_gid}), exec_gid), exec_uid)} |->
             InOrder(<<w1, w2, w3, w4, w5, w6, w7, w8, w9,
                       IF Failed(w9) THEN w9
                       ELSE IF args = <<>> THEN Raise(w9, "IndexError")
                       ELSE Ret(execve(w9, args), None)>>)])])])])])])])])

\* Jail.execute (--execute args...): args are the tokens after the option
execute(w, args) ==
    IF Failed(w) THEN w
    ELSE IF cfg.exec_chuid # None
            /\ ~userspec_ok(namespec(cfg.exec_chuid)[1], namespec(cfg.exec_chuid)[2])
    THEN Raise(w, "JailError")
    ELSE Only([ug \in {
                   IF cfg.exec_chuid # None
                   THEN userspec(namespec(cfg.exec_chuid)[1], namespec(cfg.exec_chuid)[2],
                                 NoneId, NoneId)
                   ELSE <<-1, -1>>} |->
         LET gid0 == IF cfg.gid < 1 THEN EGid ELSE cfg.gid
             uid0 == IF cfg.uid < 1 THEN EUid ELSE cfg.uid
             w1 == IF ug[2] < 1 THEN dst_gid(w, gid0) ELSE w
             exec_gid == IF ug[2] >= 1 THEN ug[2] ELSE IF gid0 \in GrGids THEN gid0 ELSE -1
         IN  Only([w2 \in {
                   IF exec_gid < 1 THEN Raise(w1, "JailError")
                   ELSE IF ug[1] < 1 THEN dst_uid(w1, uid0) ELSE w1} |->
         LET exec_uid == IF ug[1] >= 1 THEN ug[1] ELSE IF uid0 \in PwUids THEN uid0 ELSE -1
         IN  Only([w3 \in {
                   IF Failed(w2) THEN w2
                   ELSE IF exec_uid < 1 THEN Raise(w2, "JailError")
                   ELSE IF exec_uid \notin PwUids THEN Raise(w2, "KeyError")
                   ELSE IF ~subprops_ok(cfg.exec_chdir) THEN Raise(w2, "JailError")
                   ELSE w2} |->
         LET exec_chdir == abspath(subprops(cfg.exec_chdir))
             w4 == Call("mount", <<Call("all_done", <<w3>>)>>)
         IN  Only([w5 \in {
                   IF Failed(w4) THEN w4
                   ELSE IF exec_uid \notin w4.jail.dst_uids THEN Raise(w4, "KeyError")
                   ELSE IF \E i \in 1..Len(args) : ~subprops_ok(args[i]) THEN Raise(w4, "JailError")
                   ELSE w4} |->
         Only([w6 \in {
                   umask(w5, cfg.exec_umask)} |->
         Only([w7 \in {
                   chdir(w6, 1, PathOf(jailmount) \o Tail(exec_chdir))} |->
         Only([w8 \in {
                   chroot(w7, 1, PathOf(jailmount))} |->
         Only([w9 \in {
                   setuid(setgid(setgroups(w8, {exec_gid}), exec_gid), exec_uid)} |->
             InOrder(<<w1, w2, w3, w4, w5, w6, w7, w8, w9,
                       IF Failed(w9) THEN w9
                       ELSE IF args = <<>> THEN Raise(w9, "IndexError")
                       ELSE Ret(execve(w9, args), None)>>)])])])])])])])])

----------------------------------------------------------------------------
(* cli.parse: the handlers and the consumption of the tokens *)

\* the options and what their handlers take: flags DIRECT or QUEUED, the
\* number of named parameters, how many of them are needed, whether further
\* arguments are taken (*args), and whether the handler is FINAL
H(flags, nargs, need, var, final) ==
    [flags |-> flags, nargs |-> nargs, need |-> need, var |-> var, final |-> final]

Handlers ==
    [k \in {"-t", "--test", "-v", "--verbose", "--passwd", "--dns", "--lazy", "-h", "--help",
            "--chuid", "--chdir", "--bind",
            "--try", "--tmp", "--dev", "--mount", "--umount", "--clean", "--remove",
            "--add", "--add-from", "--add-recurse", "--mknod", "--rmdir", "--rm", "--mkdir",
            "--ln-s", "--chflags", "--chmod", "--chown", "--touch", "--clone-recurse",
            "--clone-from", "--clone", "--", "--execute"} |->
        CASE k \in {"-t", "--test", "-v", "--verbose", "--passwd", "--dns", "--lazy",
                    "-h", "--help"} -> H("DIRECT", 0, 0, FALSE, FALSE)
          [] k \in {"--chuid", "--chdir"} -> H("DIRECT", 1, 1, FALSE, FALSE)
          [] k = "--bind" -> H("DIRECT", 3, 1, FALSE, FALSE)
          [] k \in {"--try", "--tmp", "--dev", "--mount", "--umount", "--clean", "--remove"} ->
                H("QUEUED", 0, 0, FALSE, FALSE)
          [] k \in {"--add", "--add-recurse"} -> H("QUEUED", 0, 0, TRUE, FALSE)
          [] k = "--add-from" -> H("QUEUED", 1, 1, TRUE, FALSE)
          [] k = "--mknod" -> H("QUEUED", 4, 3, FALSE, FALSE)
          [] k \in {"--rmdir", "--rm"} -> H("QUEUED", 1, 1, FALSE, FALSE)
          [] k = "--mkdir" -> H("QUEUED", 4, 1, FALSE, FALSE)
          [] k \in {"--ln-s", "--chflags", "--chmod", "--clone"} -> H("QUEUED", 2, 2, FALSE, FALSE)
          [] k = "--chown" -> H("QUEUED", 3, 2, FALSE, FALSE)
          [] k = "--touch" -> H("QUEUED", 2, 1, FALSE, FALSE)
          [] k = "--clone-recurse" -> H("QUEUED", 3, 2, FALSE, FALSE)
          [] k = "--clone-from" -> H("QUEUED", 2, 2, TRUE, FALSE)
          [] k \in {"--", "--execute"} -> H("QUEUED", 0, 0, TRUE, TRUE)]

\* the handler of the first positional argument (cli.direct(1)): set_namespec
Positional == H("DIRECT", 1, 1, FALSE, FALSE)

\* a token is an option when its text is a key of the handlers
IsKey(tok) == Len(tok) = 1 /\ tok[1] \in DOMAIN Handlers

\* Jail._cli_mapper on one token: '-ab' becomes '-a', '-b'
Bundles == [b \in {"-tv", "-vt"} |-> IF b = "-tv" THEN <<"-t", "-v">> ELSE <<"-v", "-t">>]
mapper(tok) ==
    IF Len(tok) = 1 /\ tok[1] \in DOMAIN Bundles
    THEN [i \in 1..Len(Bundles[tok[1]]) |-> <<Bundles[tok[1]][i]>>]
    ELSE <<tok>>

\* Handler.command: the number of tokens of data taken as arguments by
\* handler h; a FINAL handler has no stops; an empty token stops the taking
RECURSIVE Taken(_, _, _)
Taken(h, data, n) ==
    IF data # <<>> /\ Head(data) # <<"">>
       /\ (h.var \/ n < h.nargs)
       /\ (h.final \/ ~IsKey(Head(data)))
    THEN Taken(h, Tail(data), n + 1)
    ELSE n

\* JailConfig.set_namespec(namespec) on the configuration c: [cfg, err]
set_namespec(c, tok) ==
    LET user == namespec(tok[1])[1]
        group == namespec(tok[1])[2]
        ug == userspec(user, group, NoneId, NoneId)
        uid == ug[1]
        gid == IF ug[2] < 1 /\ uid > 0 THEN PwGid(uid) ELSE ug[2]
        c1 == [c EXCEPT !.user = user, !.group = group, !.uid = uid, !.gid = gid]
    IN  IF Len(tok) # 1 \/ ~userspec_ok(user, group) THEN [cfg |-> c, err |-> "JailError"]
        ELSE IF uid = 0 \/ gid = 0 THEN [cfg |-> c1, err |-> "JailError"]
        ELSE [cfg |-> [c1 EXCEPT !.group = IF group # None THEN group
                                           ELSE IF gid > 0 THEN GrName(gid) ELSE user],
              err |-> ""]

\* the call of a DIRECT command during parsing: [cfg, err]
ApplyDirect(c, key, args) ==
    LET ok(c1) == [cfg |-> c1, err |-> ""]
    IN  CASE key \in {"-t", "--test"} -> ok([c EXCEPT !.test = TRUE])
          [] key \in {"-v", "--verbose"} -> ok([c EXCEPT !.verbose = TRUE])
          [] key = "--passwd" -> ok([c EXCEPT !.passwd = TRUE])
          [] key = "--dns" -> ok([c EXCEPT !.dns = TRUE])
          [] key = "--lazy" -> ok([c EXCEPT !.lazy = TRUE])
          [] key \in {"-h", "--help"} -> ok([c EXCEPT !.help = TRUE])
          [] key = "--chuid" -> ok([c EXCEPT !.exec_chuid = args[1][1]])
          [] key = "--chdir" -> ok([c EXCEPT !.exec_chdir = args[1]])
          [] key = "--bind" ->
                ok([c EXCEPT !.binds = Append(@,
                        [src |-> args[1],
                         opts |-> IF Len(args) >= 2 /\ args[2][1] \in DOMAIN OptsOf
                                  THEN OptsOf[args[2][1]] ELSE <<"auto">>,
                         path |-> IF Len(args) >= 3 THEN args[3] ELSE args[1]])])
          [] key = "1" -> set_namespec(c, args[1])

\* one round of the loop of cli.parse: the token at the head of indata is
\* mapped, its command is built from the tokens that follow and is called
\* (DIRECT), queued (QUEUED) or refused
ParseStep ==
    /\ pc = "parse"
    /\ indata # <<>>
    /\ LET m == mapper(Head(indata))
           arg == Head(m)
           rest == Tail(m) \o Tail(indata)
           iskey == IsKey(arg)
           pos == ~iskey /\ argindex = 0
           h == IF iskey THEN Handlers[arg[1]] ELSE Positional
           data == IF pos THEN <<arg>> \o rest ELSE rest
           n == IF iskey \/ pos THEN Taken(h, data, 0) ELSE 0
           args == SubSeq(data, 1, n)
           left == SubSeq(data, n + 1, Len(data))
           key == IF iskey THEN arg[1] ELSE "1"
           bad == (~iskey /\ ~pos) \/ n < h.need
           d == ApplyDirect(cfg, key, args)
       IN  /\ argindex' = IF iskey THEN argindex ELSE argindex + 1
           /\ IF bad
              THEN /\ pc' = "raised"
                   /\ hist' = [hist EXCEPT !.err = "ArgumentUnexpectedError"]
                   /\ indata' = left
                   /\ UNCHANGED <<cfg, output>>
              ELSE IF h.flags = "DIRECT"
              THEN /\ cfg' = d.cfg
                   /\ indata' = left
                   /\ pc' = IF d.err = "" THEN "parse" ELSE "raised"
                   /\ hist' = [hist EXCEPT !.err = d.err,
                                           !.ev = Append(@, [kind |-> "direct", key |-> key,
                                                             pos |-> 0])]
                   /\ UNCHANGED output
              ELSE /\ output' = Append(output, [key |-> key, args |-> args,
                                                pos |-> Len(hist.argv) - Len(indata) + 1])
                   /\ indata' = left
                   /\ UNCHANGED <<cfg, pc, hist>>
    /\ UNCHANGED <<idx, opt_try, nodes, disk, jail, host>>

\* the end of cli.parse in Jail.parse: usage when help is asked or nothing
\* is queued, else the command loop starts
ParseEnd ==
    /\ pc = "parse"
    /\ indata = <<>>
    /\ pc' = IF cfg.help \/ output = <<>> THEN "done" ELSE "loop"
    /\ idx' = 1
    /\ UNCHANGED <<cfg, indata, argindex, output, opt_try, nodes, disk, jail, host, hist>>

----------------------------------------------------------------------------
(* Jail.parse: the command loop *)

\* the world the handlers act on, from the state
World ==
    [nodes |-> nodes, disk |-> disk, hist |-> hist, jail |-> jail, host |-> host,
     opt_try |-> opt_try, err |-> "", ret |-> None, links |-> {}]

Arg(c, i) == IF i <= Len(c.args) THEN c.args[i] ELSE NoArg
ArgsFrom(c, i) == SubSeq(c.args, i, Len(c.args))

\* --try that lasts for two commands
cli_try_twice(w) == [w EXCEPT !.opt_try = 3]

\* Jail.cli_try (--try)
cli_try(w) == [w EXCEPT !.opt_try = 2]

\* Command.__call__: the handler of the queued command c
Run(w, c) ==
    CASE c.key = "--try" -> cli_try(w)
      [] c.key = "--tmp" -> Call("jailbase_tmp", <<w>>)
      [] c.key = "--dev" -> jailbase_dev(w)
      [] c.key = "--mount" -> Call("mount", <<w>>)
      [] c.key = "--umount" -> Call("umount", <<w>>)
      [] c.key = "--clean" -> clean_tmp(w)
      [] c.key = "--remove" -> clean(w)
      [] c.key = "--add" -> cmd_add(w, c.args)
      [] c.key = "--add-from" -> cmd_add_from(w, Arg(c, 1), ArgsFrom(c, 2))
      [] c.key = "--add-recurse" -> cmd_add_recurse(w, c.args)
      [] c.key = "--mknod" -> cmd_mknod(w, Arg(c, 1), Arg(c, 2), Arg(c, 3), Arg(c, 4))
      [] c.key = "--rmdir" -> cmd_rmdir(w, Arg(c, 1))
      [] c.key = "--rm" -> cmd_rm(w, Arg(c, 1))
      [] c.key = "--mkdir" -> cmd_mkdir(w, Arg(c, 1), Arg(c, 2), Arg(c, 3), Arg(c, 4))
      [] c.key = "--ln-s" -> cmd_symlink(w, Arg(c, 1), Arg(c, 2))
      [] c.key = "--chflags" -> cmd_chflags(w, Arg(c, 1), Arg(c, 2))
      [] c.key = "--chmod" -> cmd_chmod(w, Arg(c, 1), Arg(c, 2))
      [] c.key = "--chown" -> cmd_chown(w, Arg(c, 1), Arg(c, 2), Arg(c, 3))
      [] c.key = "--touch" -> cmd_utime(w, Arg(c, 1), Arg(c, 2))
      [] c.key = "--clone-recurse" -> cmd_clone_recurse(w, Arg(c, 1), Arg(c, 2), Arg(c, 3))
      [] c.key = "--clone-from" -> cmd_clone_from(w, Arg(c, 1), Arg(c, 2), ArgsFrom(c, 3))
      [] c.key = "--clone" -> Call("clone", <<w, Arg(c, 1), Arg(c, 2)>>)
      [] c.key \in {"--", "--execute"} -> execute(w, c.args)

\* A method call by name, a being the arguments with the world first.
\* The methods that have many callers are called this way, so that the
\* expansion of the next-state relation that TLC builds for its coverage
\* statistics stays small.
Call(name, a) ==
    CASE name = "jailbase_dev_one" -> jailbase_dev_one(a[1], a[2])
      [] name = "clone_recurse" -> clone_recurse(a[1], a[2], a[3], a[4])
      [] name = "examine_lines" -> examine_lines(a[1], a[2])
      [] name = "examine_files" -> examine_files(a[1], a[2], a[3])
      [] name = "makedirsloop" -> makedirsloop(a[1], a[2], a[3], a[4], a[5], a[6])
      [] name = "jailbase_tmp" -> jailbase_tmp(a[1])
      [] name = "umount_loop" -> umount_loop(a[1], a[2])
      [] name = "mount_binds" -> mount_binds(a[1], a[2], a[3], a[4])
      [] name = "mount_calls" -> mount_calls(a[1], a[2], a[3], a[4])
      [] name = "getdefault" -> getdefault(a[1], a[2], a[3], a[4], a[5])
      [] name = "Stat_mknod" -> Stat_mknod(a[1], a[2], a[3], a[4], a[5], a[6])
      [] name = "mount_bind" -> mount_bind(a[1], a[2], a[3], a[4])
      [] name = "all_done" -> all_done(a[1])
      [] name = "getname" -> getname(a[1], a[2], a[3], a[4])
      [] name = "symlink" -> symlink(a[1], a[2], a[3], a[4], a[5])
      [] name = "listdir" -> listdir(a[1], a[2])
      [] name = "srcpath" -> srcpath(a[1], a[2])
      [] name = "dstpath" -> dstpath(a[1], a[2])
      [] name = "dststat" -> dststat(a[1], a[2], a[3])
      [] name = "subcall" -> subcall(a[1], a[2], a[3])
      [] name = "mounts" -> mounts(a[1])
      [] name = "umount" -> umount(a[1])
      [] name = "chown" -> chown(a[1], a[2], a[3], a[4])
      [] name = "chmod" -> chmod(a[1], a[2], a[3])
      [] name = "rm_rf" -> rm_rf(a[1], a[2], a[3])
      [] name = "clone" -> clone(a[1], a[2], a[3])
      [] name = "mount" -> mount(a[1])
      [] name = "Run" -> Run(a[1], a[2])

\* os.execve went through: the process is the program now
Execd(w) ==
    \E i \in 1..Len(w.hist.sys) : w.hist.sys[i].call = "execve"

\* one round of the for loop of Jail.parse: the try counter is lowered, the
\* command is called, a JailError or OSError is logged and, unless the
\* counter is set, raised again; any other exception leaves the loop
RunCommand ==
    /\ pc = "loop"
    /\ idx <= Len(output)
    /\ LET c == output[idx]
           t == IF opt_try # 0 THEN opt_try - 1 ELSE opt_try
           w0 == [World EXCEPT !.opt_try = t,
                               !.hist.ev = Append(@, [kind |-> "run", key |-> c.key,
                                                      pos |-> c.pos]),
                               !.hist.tries = Append(@, t)]
       IN  \E w \in {Call("Run", <<w0, c>>)} :
           LET caught == w.err \in {"JailError", "OSError"} /\ w.opt_try # 0 IN
           /\ nodes' = w.nodes
           /\ disk' = w.disk
           /\ jail' = w.jail
           /\ host' = w.host
           /\ opt_try' = w.opt_try
           /\ hist' = [w.hist EXCEPT !.err = IF caught THEN "" ELSE w.err,
                                     !.res = Append(@, w.err)]
           /\ pc' = IF w.err # "" /\ ~caught THEN "raised"
                    ELSE IF Execd(w) THEN "execd"
                    ELSE IF idx = Len(output) THEN "all_done" ELSE "loop"
           /\ idx' = idx + 1
    /\ UNCHANGED <<cfg, indata, argindex, output>>

\* Jail.all_done() after the loop
AllDone ==
    /\ pc = "all_done"
    /\ \E w \in {Call("all_done", <<World>>)} :
           /\ nodes' = w.nodes
           /\ disk' = w.disk
           /\ jail' = w.jail
           /\ host' = w.host
           /\ hist' = [w.hist EXCEPT !.err = w.err]
           /\ pc' = IF w.err # "" THEN "raised" ELSE "done"
    /\ UNCHANGED <<cfg, indata, argindex, output, idx, opt_try>>

Next == ParseStep \/ ParseEnd \/ RunCommand \/ AllDone

----------------------------------------------------------------------------
(* The state after construction (JailConfig.__init__, Jail.__init__) *)

Cfg0 ==
    [test |-> FALSE, verbose |-> FALSE, passwd |-> FALSE, dns |-> FALSE, lazy |-> FALSE,
     help |-> FALSE, user |-> None, group |-> None, uid |-> NoneId, gid |-> NoneId,
     writepath |-> DefaultWritepath, exec_chuid |-> None, exec_chdir |-> <<"", "">>,
     exec_umask |-> 31,
     binds |-> <<[src |-> <<"{jailhome}">>, opts |-> <<"auto">>, path |-> <<"", "">>],
                 [src |-> PathOf(JAILTMP), opts |-> <<"auto">>, path |-> <<"", "jailbase">>]>>]

\* the fields of Jail; libdirs, dns_map and thread_map are the locals of
\* examine_system
Jail0 ==
    [updated_jailbase |-> FALSE, updated_passwd |-> FALSE, jailhome |-> NONE,
     src_done |-> {}, dst_uids |-> {}, dst_gids |-> {}, ldlinux_so |-> NoPath,
     ldso_cache |-> {}, solinks |-> {}, ldlist_cache |-> [x \in {} |-> {}],
     ldlist_count |-> 0, libdirs |-> {}, dns_map |-> {}, thread_map |-> {},
     dns_files |-> {}, thread_files |-> {}, dns_added |-> FALSE, thread_added |-> FALSE]

\* what is observed of a run: the syscalls issued, the commands printed, the
\* lstat calls, the number of lookups, the sources cloned, the loader
\* listings, the subprocesses, the runs of examine_system and of all_done,
\* the direct calls and command runs, the try counter at each command, the
\* exception each command ended with, the exception of the run, the steps
\* of mount and execute, the nodes add_path found in the jail home
Hist0(argv) ==
    [sys |-> <<>>, out |-> <<>>, lst |-> << <<>> >>, acc |-> 0, cln |-> <<>>, ldl |-> <<>>,
     sub |-> <<>>, exa |-> 0, alldone |-> 0, ev |-> <<>>, tries |-> <<>>, res |-> <<>>,
     err |-> "", argv |-> argv, steps |-> <<>>, dst |-> <<>>]

\* sfs.Stat(None): the root node, refreshed from the lstat of '/'
RootNode(d) ==
    [parent |-> NONE, name |-> "", children |-> EmptyFn, link |-> NoLink,
     fmt |-> d[<<>>].fmt, perm |-> d[<<>>].perm, ino |-> d[<<>>].ino, uid |-> d[<<>>].uid,
     gid |-> d[<<>>].gid, size |-> d[<<>>].size, mtime |-> d[<<>>].mtime,
     rdev |-> d[<<>>].rdev, flags |-> d[<<>>].flags]

InitWith(argv, d, h) ==
    /\ host = h
    /\ cfg = Cfg0
    /\ indata = argv
    /\ argindex = 0
    /\ output = <<>>
    /\ pc = "parse"
    /\ idx = 1
    /\ opt_try = 0
    /\ nodes = <<RootNode(d)>>
    /\ disk = d
    /\ jail = Jail0
    /\ hist = Hist0(argv)

----------------------------------------------------------------------------
(* Hosts and command lines *)

Dir(perm, uid, mtime) == DiskRec("dir", perm, uid, uid, 4096, mtime, NoLink, 0)
File(perm, uid, size, mtime) == DiskRec("file", perm, uid, uid, size, mtime, NoLink, 0)
Link(target) == DiskRec("link", 511, 0, 0, StrLen(target), 8, target, 0)
Chr(rdev) == DiskRec("chr", 438, 0, 0, 0, 8, NoLink, rdev)

\* a host with the jail home of an earlier run, an empty file /f and a
\* file /g of a user
HostDisk ==
    (<<>> :> Dir(493, 0, 8)) @@
    (<<"etc">> :> Dir(493, 0, 8)) @@
    (<<"etc", "mtab">> :> File(420, 0, 0, 8)) @@
    (<<"etc", "passwd">> :> File(420, 0, 8, 8)) @@
    (<<"etc", "group">> :> File(420, 0, 8, 8)) @@
    (<<"bin">> :> Dir(493, 0, 8)) @@
    (<<"bin", "sh">> :> File(493, 0, 8, 12)) @@
    (<<"f">> :> File(416, 1000, 0, 4)) @@
    (<<"g">> :> File(416, 1000, 8, 4)) @@
    (<<"tmp">> :> Dir(1023, 0, 8)) @@
    (<<"mnt">> :> Dir(493, 0, 8)) @@
    (<<"mnt", "jailbase">> :> Dir(493, 0, 8)) @@
    (<<"dev">> :> Dir(493, 0, 8)) @@
    (<<"dev", "null">> :> Chr(259)) @@
    (<<"dev", "zero">> :> Chr(261)) @@
    (<<"dev", "random">> :> Chr(264)) @@
    (<<"dev", "urandom">> :> Chr(265)) @@
    (<<"usr">> :> Dir(493, 0, 8)) @@
    (<<"usr", "share">> :> Dir(493, 0, 8)) @@
    (<<"usr", "share", "zoneinfo">> :> Dir(493, 0, 8)) @@
    (<<"usr", "lib">> :> Dir(493, 0, 8)) @@
    (<<"usr", "lib", "locale">> :> Dir(493, 0, 8)) @@
    (<<"var">> :> Dir(493, 0, 8)) @@
    (<<"var", "jailbase">> :> Dir(493, 0, 8)) @@
    (<<"var", "jailbase", "u">> :> Dir(493, 0, 8)) @@
    (<<"var", "jailbase", "u", "b">> :> Dir(493, 0, 8)) @@
    (<<"var", "jailbase", "u", "e">> :> File(420, 0, 4, 8))

Host0 ==
    [programs |-> {<<"", "bin", "mount">>, <<"", "bin", "umount">>, <<"", "sbin", "ldconfig">>},
     ldconfig |-> <<>>, ldlist |-> [x \in {} |-> {}], mtab |-> <<>>,
     pwfile |-> {}, grfile |-> {}, fail |-> {}, jailtmp |-> <<"tmp", "jailbase">>]

\* the command lines: an optional -t, the jail name, then up to MaxCmds
\* commands of a menu
MaxCmds == 2
RECURSIVE Flat(_)
Flat(ss) == IF ss = <<>> THEN <<>> ELSE Head(ss) \o Flat(Tail(ss))
Lines(menu, n) == UNION {[1..k -> menu] : k \in 1..n}
JH(name) == <<"{jailhome}", name>>

\* the commands on single paths, inside and outside the jail
Menu ==
    {<< <<"--mkdir">>, JH("a") >>,
     << <<"--mkdir">>, <<"", "etc", "z">> >>,
     << <<"--ln-s">>, <<"", "bin", "sh">>, JH("lnk") >>,
     << <<"--ln-s">>, <<"", "bin", "sh">>, <<"", "etc", "lnk">> >>,
     << <<"--mknod">>, JH("k"), <<"c">>, <<"0">>, <<"0644">> >>,
     << <<"--mknod">>, <<"", "etc", "k">>, <<"c">>, <<"0">>, <<"0644">> >>,
     << <<"--chmod">>, JH("e"), <<"0700">> >>,
     << <<"--chmod">>, <<"", "etc">>, <<"0700">> >>,
     << <<"--touch">>, JH("e") >>,
     << <<"--touch">>, <<"", "etc">> >>,
     << <<"--rm">>, JH("e") >>,
     << <<"--rm">>, <<"", "etc", "mtab">> >>,
     << <<"--rmdir">>, JH("b") >>,
     << <<"--rmdir">>, <<"", "mnt">> >>,
     << <<"--clone">>, <<"", "bin", "sh">>, JH("sh") >>,
     << <<"--clone">>, <<"", "bin", "sh">>, <<"", "etc", "sh">> >>,
     << <<"--remove">> >>,
     << <<"--mount">> >>,
     << <<"--umount">> >>,
     << <<"--execute">>, <<"", "bin", "sh">> >>}

Init ==
    \E pre \in {<<>>, << <<"-t">> >>} : \E l \in Lines(Menu, MaxCmds) :
        InitWith(pre \o << <<"u">> >> \o Flat(l), HostDisk, Host0)

Spec == Init /\ [][Next]_vars

----------------------------------------------------------------------------
(* The write policy (C1, C2) *)

\* the path a command on a single path writes to
Target(c) ==
    PhysOf(abspath(subprops(IF c.key \in {"--ln-s", "--clone"} THEN c.args[2] ELSE c.args[1])))
OnePath(c) ==
    c.key \in {"--mkdir", "--ln-s", "--mknod", "--chmod", "--touch", "--rm", "--rmdir", "--clone"}
Outside(c) == OnePath(c) /\ ~writepath_match(cfg.writepath, Target(c))
Inside(c) == OnePath(c) /\ writepath_match(cfg.writepath, Target(c))

\* the commands run so far and the one run last
Ran == Len(hist.res)
LastRan == output[Ran]

\* C1: in production mode no filesystem syscall is ever issued on a path
\* that the write path expression does not match, and a command that has to
\* write to such a path ends with the error of the write policy
C1_WritePolicy ==
    ~cfg.test =>
        /\ \A i \in 1..Len(hist.sys) :
              hist.sys[i].path # NoPath => writepath_match(cfg.writepath, hist.sys[i].path)
        /\ \A j \in 1..Ran : Outside(output[j]) => hist.res[j] = "ValueError"

\* a production run that wrote inside the jail and was then refused a path
\* outside of it
C1_Witness ==
    /\ ~cfg.test /\ pc = "raised" /\ hist.err = "ValueError"
    /\ Ran = 2 /\ Inside(output[1]) /\ Outside(output[2])
    /\ Len(hist.sys) > 0

\* the node the cache holds at a physical path, NONE when it holds none
RECURSIVE NodeAt(_, _, _)
NodeAt(ns, id, segs) ==
    IF segs = <<>> THEN id
    ELSE IF Head(segs) \in DOMAIN ns[id].children
    THEN NodeAt(ns, ns[id].children[Head(segs)], Tail(segs))
    ELSE NONE

\* the cache shows what the command c planned at its path
Planned(c) ==
    LET id == NodeAt(nodes, 1, Target(c))
        gone == id = NONE \/ ~Truthy(nodes[id])
    IN  CASE c.key \in {"--rm", "--rmdir"} -> gone
          [] c.key = "--mkdir" -> ~gone /\ nodes[id].fmt = "dir"
          [] c.key = "--ln-s" -> ~gone /\ nodes[id].fmt = "link" /\ nodes[id].link = c.args[1]
          [] c.key = "--mknod" -> ~gone /\ nodes[id].fmt = "chr"
          [] c.key = "--chmod" -> ~gone /\ nodes[id].perm = IntOf[c.args[2][1]]
          [] c.key = "--touch" -> ~gone /\ nodes[id].mtime = Now
          [] c.key = "--clone" -> ~gone /\ nodes[id].fmt = "file"
                                  /\ nodes[id].size = HostDisk[PhysOf(c.args[1])].size

Printed(phys) == \E i \in 1..Len(hist.out) : hist.out[i].path = phys

\* C2: in test mode no syscall is issued (none on the filesystem, no
\* chroot, setgroups, setgid, setuid or execve), the disk and the mount
\* table stay as they were, no subprocess is started for mount or umount,
\* and after a command that succeeded on a path of the jail the command was
\* printed and the cache shows the planned state
C2_TestDryRun ==
    cfg.test =>
        /\ hist.sys = <<>>
        /\ disk = HostDisk
        /\ host.mtab = Host0.mtab
        /\ \A i \in 1..Len(hist.sub) :
              hist.sub[i].prog \notin {<<"", "bin", "mount">>, <<"", "bin", "umount">>}
        /\ (Ran > 0 /\ hist.res[Ran] = "" /\ Inside(LastRan)) =>
              Planned(LastRan) /\ Printed(Target(LastRan))

\* a dry run of --mount and --execute that went through, all of it printed
C2_Witness ==
    /\ cfg.test /\ pc = "done" /\ Ran = 2
    /\ \E i \in 1..Len(hist.out) : hist.out[i].call = "mount"
    /\ \E i \in 1..Len(hist.out) : hist.out[i].call = "execve"
    /\ \E i \in 1..Len(hist.out) : hist.out[i].call = "mkdir"

\* C8: in test mode a mutating operation on a path outside the write path
\* raises nothing: the command it belongs to ends without an exception
C8_TestSkipsOutside ==
    cfg.test => \A j \in 1..Ran : Outside(output[j]) => hist.res[j] = ""

----------------------------------------------------------------------------
(* The command loop and --try (C3 to C7) *)

\* the bound on the commands of a line of the loop
MaxLoop == 3

\* the commands of the loop: --try, a command that succeeds, one failing
\* with each kind of exception (JailError: no such source; OSError: rmdir of
\* a directory that is not empty; ValueError: outside the write path), and
\* the direct options -v and -tv
LoopMenu ==
    {<< <<"--try">> >>,
     << <<"--mkdir">>, JH("a") >>,
     << <<"--add">>, <<"", "m">> >>,
     << <<"--rmdir">>, <<"{jailhome}">> >>,
     << <<"--mkdir">>, <<"", "etc", "z">> >>,
     << <<"-v">> >>,
     << <<"-tv">> >>}

InitLoop ==
    \E pre \in {<<>>, << <<"-t">> >>} : \E l \in Lines(LoopMenu, MaxLoop) :
        InitWith(pre \o << <<"u">> >> \o Flat(l), HostDisk, Host0)

SpecLoop == InitLoop /\ [][Next]_vars

\* the command before the i-th queued command is --try
Preceded(i) == i > 1 /\ output[i - 1].key = "--try"

\* the i-th command failed and its exception left the loop
Aborted(i) == hist.res[i] # "" /\ i = Ran /\ pc = "raised"

\* the place of the first -- or --execute of the command line: what follows
\* it belongs to the program
FirstFinal ==
    LET F == {i \in 1..Len(hist.argv) : hist.argv[i] \in {<<"--">>, <<"--execute">>}}
    IN  IF F = {} THEN Len(hist.argv) + 1 ELSE CHOOSE i \in F : \A j \in F : i <= j

\* the flags a token of the command line asks for, alone or bundled
FlagsOf(tok) ==
    IF Len(tok) # 1 THEN {}
    ELSE IF tok[1] \in DOMAIN Bundles
         THEN {Bundles[tok[1]][i] : i \in 1..Len(Bundles[tok[1]])}
    ELSE IF tok[1] \in {"-t", "--test", "-v", "--verbose"} THEN {tok[1]}
    ELSE {}

\* the flag is set in the configuration
Applied(k) ==
    CASE k \in {"-t", "--test"} -> cfg.test
      [] k \in {"-v", "--verbose"} -> cfg.verbose

\* the runs of queued commands, in the order they happened
Runs == SelectSeq(hist.ev, LAMBDA e : e.kind = "run")

\* the queued commands ran at most once each, in the order of their tokens
InParseOrder ==
    /\ Len(Runs) = Ran
    /\ \A k \in 1..Ran : Runs[k].pos = output[k].pos /\ Runs[k].key = output[k].key
    /\ \A k \in 1..(Len(output) - 1) : output[k].pos < output[k + 1].pos

\* C3: the queued commands are executed at most once each and in the order
\* their tokens were parsed, and once a queued command has run every flag
\* given on the command line, alone or bundled, before or after a queued
\* command, is in effect
C3_OrderAndDirect ==
    /\ InParseOrder
    /\ Ran > 0 =>
          \A i \in 1..Len(hist.argv) :
              i < FirstFinal => \A k \in FlagsOf(hist.argv[i]) : Applied(k)

\* C4: in normal mode a failure of a queued command that no --try directly
\* precedes leaves the loop: it is the last command run, the run has
\* raised, and all_done was not called
C4_FailureAborts ==
    ~cfg.test =>
        \A i \in 1..Ran :
            (hist.res[i] # "" /\ ~Preceded(i)) => Aborted(i) /\ hist.alldone = 0

\* a JailError of the second of three commands, the first not being --try
C4_Witness ==
    /\ ~cfg.test /\ Len(output) = 3 /\ Ran = 2 /\ pc = "raised"
    /\ output[1].key # "--try" /\ hist.res = <<"", "JailError">>
    /\ hist.alldone = 0

\* C5: --try is one-shot: a failure of the command right after --try does
\* not leave the loop, a failure of the second command after --try (no
\* other --try between) does; the counter is never negative and is zero
\* when no --try directly precedes the running command
C5_TryOneShot ==
    \A i \in 1..Ran :
        /\ hist.tries[i] >= 0
        /\ ~Preceded(i) => hist.tries[i] = 0
        /\ (Preceded(i) /\ hist.res[i] # "") => ~Aborted(i)
        /\ (i > 2 /\ output[i - 2].key = "--try" /\ ~Preceded(i) /\ hist.res[i] # "")
              => Aborted(i)

\* C6: a failure of any kind of a command that --try directly precedes
\* does not leave the loop
C6_TryAbsorbsAll ==
    \A i \in 1..Ran : \A e \in {"JailError", "OSError", "ValueError"} :
        (Preceded(i) /\ hist.res[i] = e) => ~Aborted(i)

\* C7: in test mode the failure of a queued command that no --try precedes
\* does not end the run while commands remain
C7_TestContinues ==
    cfg.test =>
        \A i \in 1..Ran :
            (hist.res[i] # "" /\ ~Preceded(i)) => ~(Aborted(i) /\ Ran < Len(output))

----------------------------------------------------------------------------
(* --add and --clone of files and trees (C9, C10) *)

\* the bound on the commands of a line of adds
MaxAdd == 3

\* the adds: an empty file, a file with bytes, a tree, a path that is not
\* there and one below it, a tree that holds the jail home; --try
AddMenu ==
    {<< <<"--try">> >>,
     << <<"--add">>, <<"", "f">> >>,
     << <<"--add">>, <<"", "g">> >>,
     << <<"--clone">>, <<"", "f">>, JH("f") >>,
     << <<"--add-recurse">>, <<"", "usr">> >>,
     << <<"--add">>, <<"", "m">> >>,
     << <<"--add">>, <<"", "m", "x">> >>,
     << <<"--add-recurse">>, <<"", "var">> >>}

InitAdd ==
    \E l \in Lines(AddMenu, MaxAdd) : InitWith(<< <<"u">> >> \o Flat(l), HostDisk, Host0)

SpecAdd == InitAdd /\ [][Next]_vars

\* a command that copies one source to one place of the jail, its source
\* and its destination on the disk
Copies(c) == c.key \in {"--add", "--clone"} /\ Len(c.args) = (IF c.key = "--add" THEN 1 ELSE 2)
SrcOf(c) == PhysOf(abspath(subprops(c.args[1])))
DstOf(c) == IF c.key = "--add" THEN jailhome \o SrcOf(c) ELSE Target(c)

\* the cached node of a path shows what is on the disk
CacheIsDisk(phys) ==
    LET id == NodeAt(nodes, 1, phys)
    IN  /\ id # NONE
        /\ phys \in DOMAIN disk
        /\ \A f \in {"fmt", "perm", "uid", "gid", "size", "mtime"} :
              nodes[id][f] = disk[phys][f]

\* C9: in production mode, after a clone or add of a regular file went
\* through, whatever its size, the destination on the disk has the uid,
\* the gid, the permission bits and the mtime of the source, and the
\* cached node of the destination shows the disk
C9_CopyKeepsAttributes ==
    (~cfg.test /\ Ran > 0 /\ hist.res[Ran] = "" /\ Copies(LastRan)
        /\ SrcOf(LastRan) \in DOMAIN disk /\ disk[SrcOf(LastRan)].fmt = "file") =>
            LET s == disk[SrcOf(LastRan)]
                d == DstOf(LastRan)
            IN  /\ d \in DOMAIN disk
                /\ disk[d].uid = s.uid /\ disk[d].gid = s.gid
                /\ disk[d].perm = s.perm /\ disk[d].mtime = s.mtime
                /\ CacheIsDisk(d)

\* the run of an add command
AddStep ==
    pc = "loop" /\ idx <= Len(output) /\ output[idx].key \in {"--add", "--add-recurse"}

\* what the step adds to a log of the run
Fresh(log, log1) == {log1[i] : i \in (Len(log) + 1)..Len(log1)}

\* a path longer than the kernel allows was handed to it
HitPathMax ==
    \/ \E i \in 1..Len(hist.lst) : Len(hist.lst[i]) > PathMax
    \/ \E i \in 1..Len(hist.sys) : hist.sys[i].path # NoPath /\ Len(hist.sys[i].path) > PathMax

\* C10: an add ends on account of the done set and the finite tree, never
\* by running into the kernel's limit on the length of a path; and a source
\* path that is in the done set when an add command starts is not lstat-ed,
\* listed by the loader or cloned by that command
C10_AddEndsAndSkipsDone ==
    [][AddStep =>
          /\ ~HitPathMax'
          /\ \A q \in Fresh(hist.lst, hist'.lst) \cup Fresh(hist.cln, hist'.cln) :
                PathOf(q) \notin jail.src_done
          /\ \A q \in Fresh(hist.ldl, hist'.ldl) : q \notin jail.src_done]_vars

----------------------------------------------------------------------------
(* Bind mounts (C21 to C23, C28, C29) *)

\* a host with the home of a second jail k
MountDisk ==
    HostDisk @@
    (<<"var", "jailbase", "k">> :> Dir(493, 0, 8))

\* the same host with the jail mounted by an earlier run: {jailhome} at
\* {jailmount} and /usr/lib below it
MountedDisk ==
    MountDisk @@
    (<<"mnt", "jailbase", "u">> :> Dir(493, 0, 8))
MountedTab ==
    <<[dst |-> <<"", "mnt", "jailbase", "u">>, src |-> <<"", "var", "jailbase", "u">>,
       bind |-> TRUE, opts |-> <<"ro", "nosuid", "bind">>],
      [dst |-> <<"", "mnt", "jailbase", "u", "usr", "lib">>, src |-> <<"", "usr", "lib">>,
       bind |-> TRUE, opts |-> <<"ro", "nosuid", "noexec", "bind">>]>>

\* a host with a file where a mount point would be
StaleDisk ==
    MountedDisk @@
    (<<"mnt", "jailbase", "u", "e">> :> File(420, 0, 4, 8))

\* the hosts: nothing mounted, the jail mounted, /bin/mount or /bin/umount
\* exiting with status 1, no /bin/mount to run, a file at a mount point
MountHosts ==
    {[d |-> MountDisk, h |-> Host0],
     [d |-> MountedDisk, h |-> [Host0 EXCEPT !.mtab = MountedTab]],
     [d |-> MountDisk, h |-> [Host0 EXCEPT !.fail = {<<"", "bin", "mount">>}]],
     [d |-> MountedDisk, h |-> [Host0 EXCEPT !.mtab = MountedTab,
                                             !.fail = {<<"", "bin", "umount">>}]],
     [d |-> MountDisk, h |-> [Host0 EXCEPT !.programs = {<<"", "bin", "umount">>}]],
     [d |-> StaleDisk, h |-> Host0]}

\* the --bind options: a directory outside the write path, one inside, the
\* home of another jail, a file, a path that is not there, a directory of
\* {jailhome}, {jailmount} itself, a parent of {jailmount}, a parent of
\* {jailhome}, a directory of {jailmount} bound at its parent, options
\* given, a mount point that is a file of the jail
BindMenu ==
    {<< <<"--bind">>, <<"", "usr">> >>,
     << <<"--bind">>, <<"", "tmp">> >>,
     << <<"--bind">>, <<"", "var", "jailbase", "k">> >>,
     << <<"--bind">>, <<"", "f">> >>,
     << <<"--bind">>, <<"", "x">> >>,
     << <<"--bind">>, <<"", "var", "jailbase", "u", "b">> >>,
     << <<"--bind">>, <<"", "mnt", "jailbase", "u">>, <<"auto">>, <<"x">> >>,
     << <<"--bind">>, <<"", "mnt">> >>,
     << <<"--bind">>, <<"", "var", "jailbase">> >>,
     << <<"--bind">>, <<"", "mnt", "jailbase", "u", "b">>, <<"auto">>, <<"", "">> >>,
     << <<"--bind">>, <<"", "usr">>, <<"exec,rw">> >>,
     << <<"--bind">>, <<"", "usr">>, <<"auto">>, <<"e">> >>,
     << <<"--bind">>, <<"", "usr", "lib">>, <<"ro">> >>}

\* the bound on the --bind options of a line, and the lines of two
MaxBinds == 2
BindLines ==
    {<<>>} \cup Lines(BindMenu, 1) \cup
    {l \in Lines(BindMenu, MaxBinds) :
        /\ Len(l) = 2
        /\ \/ l[1][2] = <<"", "usr">> /\ l[2][2] \in {<<"", "usr", "lib">>, <<"", "tmp">>}
           \/ l[1][2] = <<"", "usr", "lib">> /\ l[2] = << <<"--bind">>, <<"", "usr">> >>}

MountMenu == {<< <<"--mount">> >>, << <<"--umount">> >>, << <<"--remove">> >>}

InitMount ==
    \E pre \in {<<>>, << <<"-t">> >>} : \E bl \in BindLines :
    \E l \in Lines(MountMenu, MaxCmds) : \E m \in MountHosts :
        InitWith(pre \o << <<"u">> >> \o Flat(bl) \o Flat(l), m.d, m.h)

SpecMount == InitMount /\ [][Next]_vars

\* the subprocesses of the run that are /bin/mount --bind, /bin/mount -o
\* and /bin/umount
IsMount(e) == e.prog = <<"", "bin", "mount">>
IsBindCall(e) == IsMount(e) /\ e.args.opts = {"--bind"}
IsOptCall(e) == IsMount(e) /\ e.args.src = NoPath
IsUmount(e) == e.prog = <<"", "bin", "umount">>
Subs == {i \in 1..Len(hist.sub) : TRUE}

\* a bind-spec of the configuration: its options are auto, its source and
\* its mount point as paths of the host
Named == HasUser /\ HasGroup
AutoBind(b) == b.opts \in {<<>>, <<"auto">>}
BindSrc(b) == PhysOf(abspath(subprops(b.src)))
BindDst(b) == abspath(PathOf(jailmount) \o b.path)
OnlyAt(b) == \A i \in 1..Len(cfg.binds) : BindDst(cfg.binds[i]) = BindDst(b) => cfg.binds[i] = b

\* the options the documentation gives for auto, home being the directory
\* whose sources get exec,ro
AutoOpts(ps, home) ==
    {"nosuid", "remount", "bind", "noatime"} \cup
    (IF IsPrefix(home, ps) THEN {"exec", "ro"}
     ELSE IF writepath_match(cfg.writepath, ps) THEN {"noexec", "rw"}
     ELSE {"noexec", "ro"})

\* bindopts gives, and /bin/mount -o is run with, the options AutoOpts
\* names for every bind-spec with the options auto or empty
AutoOptionsFor(home) ==
    Named =>
        \A k \in 1..Len(cfg.binds) :
            LET b == cfg.binds[k] IN
            AutoBind(b) =>
                /\ \A os \in {<<>>, <<"auto">>} :
                      bindopts(abspath(subprops(b.src)), os) = AutoOpts(BindSrc(b), home)
                /\ OnlyAt(b) =>
                      \A i \in Subs :
                          IsOptCall(hist.sub[i]) /\ hist.sub[i].args.dst = BindDst(b) =>
                              hist.sub[i].args.opts = AutoOpts(BindSrc(b), home)

\* C21: bindopts with the options "auto" or the empty string returns exactly
\* {exec, ro, nosuid, remount, bind, noatime} when the source is under this
\* jail's {jailhome}, {noexec, rw, nosuid, remount, bind, noatime} when it
\* is not and matches the write path, {noexec, ro, nosuid, remount, bind,
\* noatime} otherwise
C21_AutoOptionsOwnHome == AutoOptionsFor(jailhome)

\* C21 as the code has it: the sources that get exec,ro are those under
\* JAILHOME, the directory of the homes of all jails
C21_AutoOptionsJailHomes == AutoOptionsFor(JAILHOME)

\* /bin/mount -o ran for the home of this jail, for a directory of the write
\* path and for one outside it, each bound with the options auto
C21_Witness ==
    /\ Named
    /\ \E k \in 1..Len(cfg.binds) : \E i \in Subs :
          /\ AutoBind(cfg.binds[k]) /\ BindSrc(cfg.binds[k]) = <<"tmp">>
          /\ IsOptCall(hist.sub[i]) /\ hist.sub[i].args.dst = BindDst(cfg.binds[k])
          /\ hist.sub[i].args.opts = {"noexec", "rw", "nosuid", "remount", "bind", "noatime"}
    /\ \E i \in Subs :
          /\ IsOptCall(hist.sub[i]) /\ hist.sub[i].args.dst = PathOf(jailmount)
          /\ hist.sub[i].args.opts = {"exec", "ro", "nosuid", "remount", "bind", "noatime"}

\* the run of a --mount command, the exception the command run by the step
\* ended with, and the subprocesses the step ran
MountStep == pc = "loop" /\ idx <= Len(output) /\ output[idx].key = "--mount"
ResultOf(h) == h.res[Len(h.res)]
Spawned(h, h1) == {h1.sub[i] : i \in (Len(h.sub) + 1)..Len(h1.sub)}

\* C22: when --mount returns without error in production mode, every
\* /bin/mount --bind and /bin/mount -o it ran completed with exit status 0;
\* a non-zero exit of either, or a /bin/mount that cannot be spawned, makes
\* --mount fail
C22_MountNeedsExitZero ==
    [][MountStep /\ ~cfg.test =>
          /\ ResultOf(hist') = "" =>
                \A e \in Spawned(hist, hist') : IsMount(e) => e.status = 0
          /\ <<"", "bin", "mount">> \notin host.programs => ResultOf(hist') # ""]_vars

\* the cases in which a bind-spec is to be refused, on the disk d and with
\* the mount table tab: the source is at or above the mount point, inside
\* {jailhome} or {jailmount}, above {jailmount} or {jailhome}, missing or
\* not a directory; the mount point is there and is not a directory; a
\* mount of the table is below the mount point
SourceAboveDst(b) == IsPrefix(BindSrc(b), PhysOf(BindDst(b)))
SourceInside(b) ==
    \/ IsPrefix(jailhome, BindSrc(b)) /\ BindSrc(b) # jailhome
    \/ IsPrefix(jailmount, BindSrc(b)) /\ BindSrc(b) # jailmount
SourceAboveJail(b) ==
    \/ IsPrefix(BindSrc(b), jailmount) /\ BindSrc(b) # jailmount
    \/ IsPrefix(BindSrc(b), jailhome) /\ BindSrc(b) # jailhome
SourceNoDir(b, d) == BindSrc(b) \notin DOMAIN d \/ d[BindSrc(b)].fmt # "dir"
DstNoDir(b, d) == PhysOf(BindDst(b)) \in DOMAIN d /\ d[PhysOf(BindDst(b))].fmt # "dir"
MountBelow(b, tab) ==
    \E i \in 1..Len(tab) :
        /\ tab[i].bind /\ IsPrefix(jailmount, PhysOf(tab[i].dst))
        /\ IsPrefix(PhysOf(BindDst(b)), PhysOf(tab[i].dst)) /\ tab[i].dst # BindDst(b)
Rejected(b, d, tab) ==
    \/ SourceAboveDst(b) \/ SourceInside(b) \/ SourceAboveJail(b) \/ MountBelow(b, tab)
    \/ ~cfg.test /\ (SourceNoDir(b, d) \/ DstNoDir(b, d))

\* the mount commands of a step for the bind-spec b: run, or printed in a
\* test run
MountsFor(b, h, h1) ==
    {e \in Spawned(h, h1) : IsMount(e) /\ e.args.dst = BindDst(b)
                            /\ (IsBindCall(e) => e.args.src = abspath(subprops(b.src)))}
PrintsFor(b, h, h1) ==
    {i \in (Len(h.out) + 1)..Len(h1.out) :
        h1.out[i].call = "mount" /\ h1.out[i].path = PhysOf(BindDst(b))}

\* C23: no mount command is issued for a bind-spec when its source is an
\* ancestor of its mount point, is inside {jailhome} or {jailmount}, has
\* {jailmount} or {jailhome} below it, is missing or not a directory, when
\* its mount point exists and is not a directory, or when an existing mount
\* is at a subdirectory of its mount point
C23_RejectedNeverMounted ==
    [][MountStep =>
          \A k \in 1..Len(cfg.binds) :
              LET b == cfg.binds[k] IN
              OnlyAt(b) /\ Rejected(b, disk', host.mtab) =>
                  MountsFor(b, hist, hist') = {} /\ PrintsFor(b, hist, hist') = {}]_vars

\* the places in the log of subprocesses, of system calls and of printed
\* commands that a step fills
NewSubs(h, h1) == (Len(h.sub) + 1)..Len(h1.sub)
NewSys(h, h1) == (Len(h.sys) + 1)..Len(h1.sys)
NewOut(h, h1) == (Len(h.out) + 1)..Len(h1.out)

\* C28: during --mount every creation of a mount point directory comes
\* before the first mount command; a mount point that is a proper ancestor
\* of another is mounted first; the --bind call of a mount point, when there
\* is one, is directly followed by its -o call, and each mount point gets
\* exactly one -o call
C28_MountOrder ==
    [][MountStep =>
          LET s == hist'.sub
              new == {i \in NewSubs(hist, hist') : IsMount(s[i])}
          IN  /\ \A i \in new : \A j \in NewSys(hist, hist') : j <= s[i].at
              /\ \A i, j \in NewOut(hist, hist') :
                    hist'.out[i].call = "mount" /\ hist'.out[j].call # "mount" => j < i
              /\ \A i, j \in new :
                    /\ IsPrefix(PhysOf(s[i].args.dst), PhysOf(s[j].args.dst))
                    /\ s[i].args.dst # s[j].args.dst
                    => i < j
              /\ \A i \in new :
                    IsBindCall(s[i]) =>
                        /\ i + 1 \in new
                        /\ IsOptCall(s[i + 1]) /\ s[i + 1].args.dst = s[i].args.dst
              /\ \A i, j \in new :
                    IsOptCall(s[i]) /\ IsOptCall(s[j]) /\ s[i].args.dst = s[j].args.dst
                    => i = j]_vars

\* a --mount has bound /usr/lib, given first, below /usr, given second, and
\* has made and mounted four mount points
C28_Witness ==
    /\ Len(cfg.binds) = 4 /\ cfg.binds[3].src = <<"", "usr", "lib">>
    /\ Len(hist.sub) = 8 /\ \A i \in Subs : IsMount(hist.sub[i]) /\ hist.sub[i].at > 0
    /\ hist.sub[3].args.dst = <<"", "mnt", "jailbase", "u", "usr">>
    /\ hist.sub[8].args.dst = <<"", "mnt", "jailbase", "u", "usr", "lib">>
    /\ \E j \in 1..Len(hist.sys) :
          hist.sys[j].call = "mkdir" /\ hist.sys[j].path = <<"var", "jailbase", "u", "usr", "lib">>

\* the run of a --umount or --remove command; the mount points of the
\* table tab that are at or below {jailmount}
UmountStep == pc = "loop" /\ idx <= Len(output) /\ output[idx].key \in {"--umount", "--remove"}
Relevant(tab) ==
    {tab[i].dst : i \in {k \in 1..Len(tab) : tab[k].bind /\ IsPrefix(jailmount, PhysOf(tab[k].dst))}}

\* a system call or a printed command that removes the path p or something
\* below it
Removes(e, p) == e.call \in {"rmdir", "remove"} /\ e.path # NoPath /\ IsPrefix(p, e.path)
InJail(e) == Removes(e, jailhome) \/ Removes(e, jailpriv)

\* C29: --umount runs one umount for each mount point at or below
\* {jailmount}, a nested mount point before its ancestors, and removes the
\* directory {jailmount} only after all of them; --remove removes nothing of
\* {jailhome} or {jailpriv} before all of that is done
C29_UmountOrder ==
    [][UmountStep =>
          LET s == hist'.sub
              new == {i \in NewSubs(hist, hist') : IsUmount(s[i])}
              sys == hist'.sys
              out == hist'.out
          IN  /\ ~cfg.test => {s[i].args.dst : i \in new} = Relevant(host.mtab)
              /\ \A i, j \in new : s[i].args.dst = s[j].args.dst => i = j
              /\ \A i, j \in new :
                    /\ IsPrefix(PhysOf(s[i].args.dst), PhysOf(s[j].args.dst))
                    /\ s[i].args.dst # s[j].args.dst
                    => j < i
              /\ \A i \in new : \A j \in NewSys(hist, hist') :
                    Removes(sys[j], jailmount) \/ InJail(sys[j]) => s[i].at < j
              /\ \A i, j \in NewSys(hist, hist') :
                    Removes(sys[i], jailmount) /\ InJail(sys[j]) => i < j
              /\ \A i, j \in NewOut(hist, hist') :
                    /\ out[i].call = "umount"
                    /\ Removes(out[j], jailmount) \/ InJail(out[j])
                    => i < j
              /\ \A i, j \in NewOut(hist, hist') :
                    Removes(out[i], jailmount) /\ InJail(out[j]) => i < j]_vars

\* a --remove has unmounted /usr/lib of the jail and then the jail, has
\* removed {jailmount} and then the home of the jail
C29_Witness ==
    /\ Len(hist.sub) = 2 /\ IsUmount(hist.sub[1]) /\ IsUmount(hist.sub[2])
    /\ hist.sub[1].args.dst = <<"", "mnt", "jailbase", "u", "usr", "lib">>
    /\ hist.sub[2].args.dst = <<"", "mnt", "jailbase", "u">>
    /\ host.mtab = <<>>
    /\ \E i, j \in 1..Len(hist.sys) :
          /\ i < j
          /\ hist.sys[i].call = "rmdir" /\ hist.sys[i].path = jailmount
          /\ hist.sys[j].call = "rmdir" /\ hist.sys[j].path = jailhome

----------------------------------------------------------------------------
(* --execute (C24 to C27) *)

\* the bound on the tokens after --execute
MaxArgs == 2

\* the options before --execute (the last one names a directory that is
\* not there), a command before it, and the tokens after it: a program, the
\* name of a command, the empty string
ExecOpts ==
    {<<>>,
     << <<"--chuid">>, <<"u">> >>,
     << <<"--chuid">>, <<"root">> >>,
     << <<"--chuid">>, <<"k">> >>,
     << <<"--passwd">> >>,
     << <<"--passwd">>, <<"--chuid">>, <<"u">> >>,
     << <<"--chdir">>, <<"", "x">> >>}
ExecBefore == {<<>>, << <<"--mount">> >>, << <<"--add">>, <<"", "f">> >>}
ExecTokens == {<<"", "bin", "sh">>, <<"--mount">>, <<"">>}
ExecArgs == {<<>>} \cup UNION {[1..k -> ExecTokens] : k \in 1..MaxArgs}

InitExec ==
    \E pre \in {<<>>, << <<"-t">> >>} : \E name \in {"u", "k"} : \E o \in ExecOpts :
    \E b \in ExecBefore : \E key \in {"--", "--execute"} : \E a \in ExecArgs :
        InitWith(pre \o << <<name>> >> \o o \o b \o << <<key>> >> \o a, HostDisk, Host0)

SpecExec == InitExec /\ [][Next]_vars

\* the run of an --execute command, and the steps it enters
ExecStep == pc = "loop" /\ idx <= Len(output) /\ output[idx].key \in {"--", "--execute"}
NewSteps(h, h1) == (Len(h.steps) + 1)..Len(h1.steps)
Entered(h, h1) == {h1.steps[i].step : i \in NewSteps(h, h1)}

\* the identity --execute is asked for: that of --chuid when given, else
\* that of the jail; an id that resolves to a number below 1
Chosen ==
    IF cfg.exec_chuid # None
    THEN userspec(namespec(cfg.exec_chuid)[1], namespec(cfg.exec_chuid)[2], NoneId, NoneId)
    ELSE <<cfg.uid, cfg.gid>>
NotPositive(id) == id # NoneId /\ id < 1

\* C24: --execute fails before any mount, chroot, setgid, setuid or exec
\* step when the uid or gid chosen (by --chuid when given, else the jail's)
\* resolves to 0 or less; a --chuid that resolves to a positive uid and gid
\* is the identity the program runs as
C24_ChosenIdentity ==
    [][ExecStep =>
          /\ NotPositive(Chosen[1]) \/ NotPositive(Chosen[2]) =>
                /\ ResultOf(hist') # ""
                /\ Entered(hist, hist') \cap {"mount", "chroot", "setgid", "setuid", "execve"} = {}
          /\ cfg.exec_chuid # None /\ Chosen[1] > 0 /\ Chosen[2] > 0 =>
                \A i \in NewSteps(hist, hist') :
                    LET e == hist'.steps[i] IN
                    /\ e.step = "setgid" => e.arg = Chosen[2]
                    /\ e.step = "setuid" => e.arg = Chosen[1]
                    /\ e.step = "execve" =>
                          {"setgid", "setuid"} \subseteq Entered(hist, hist')]_vars

\* the steps of execute in the order of the code, and the names of the
\* steps a command has entered, in their order
ExecOrder ==
    <<"all_done", "mount", "umask", "chdir", "chroot", "setgroups", "setgid", "setuid",
      "execve">>
StepSeq(h, h1) == [i \in 1..(Len(h1.steps) - Len(h.steps)) |-> h1.steps[Len(h.steps) + i].step]

\* C25: in every run of --execute the steps all_done, mount, umask, chdir,
\* chroot, setgroups, setgid, setuid, execve happen in this order, each at
\* most once (so chroot before setgroups and setgid before setuid), and a
\* step that raises is the last one
C25_ExecuteOrder ==
    [][ExecStep =>
          LET done == StepSeq(hist, hist') IN
          /\ Len(done) <= Len(ExecOrder)
          /\ done = SubSeq(ExecOrder, 1, Len(done))
          /\ ResultOf(hist') = "" => done = ExecOrder
          /\ Len(done) < Len(ExecOrder) => ResultOf(hist') # ""
          /\ Len(hist'.sys) > Len(hist.sys) /\ done = ExecOrder =>
                LET k == CHOOSE i \in NewSteps(hist, hist') : hist'.steps[i].step = "chroot"
                IN  \A i \in NewSubs(hist, hist') : hist'.sub[i].at <= hist'.steps[k].sys]_vars

\* an --execute has mounted the jail, has gone through all its steps and
\* the program runs
C25_Witness ==
    /\ pc = "execd"
    /\ StepSeq(Hist0(<<>>), hist) = ExecOrder
    /\ Len(hist.sub) >= 4

\* in the log h, before the step e: the file name of {jailhome}/etc was
\* written (or its writing printed in a test run); a /bin/mount for
\* {jailmount} was run (or printed)
Wrote(h, e, name) ==
    LET q == jailhome \o <<"etc", name>>
    IN  \/ \E j \in 1..e.sys : h.sys[j].call = "open_wb" /\ h.sys[j].path = q
        \/ \E j \in 1..e.out : h.out[j].call = "cat" /\ h.out[j].path = q
MountedBy(h, e) ==
    \/ \E i \in 1..Len(h.sub) :
          IsMount(h.sub[i]) /\ h.sub[i].args.dst = PathOf(jailmount) /\ h.sub[i].at <= e.sys
    \/ \E j \in 1..e.out : h.out[j].call = "mount" /\ h.out[j].path = jailmount

\* C26: --execute implies --passwd and --mount: when it runs with
\* {jailhome} existing, the passwd and group files of the jail are written
\* and the bind mounts are made before the chroot, also when neither
\* --passwd nor --mount was given
C26_ExecuteImplies ==
    [][ExecStep /\ Named /\ jailhome \in DOMAIN disk =>
          \A i \in NewSteps(hist, hist') :
              hist'.steps[i].step = "chroot" =>
                  /\ Wrote(hist', hist'.steps[i], "passwd")
                  /\ Wrote(hist', hist'.steps[i], "group")
                  /\ MountedBy(hist', hist'.steps[i])]_vars

\* the first -- or --execute of the command line, and whether the parser
\* has taken it
ExecAt == CHOOSE p \in 1..Len(hist.argv) :
              /\ hist.argv[p] \in {<<"--">>, <<"--execute">>}
              /\ \A q \in 1..(p - 1) : hist.argv[q] \notin {<<"--">>, <<"--execute">>}
HasExec == \E p \in 1..Len(hist.argv) : hist.argv[p] \in {<<"--">>, <<"--execute">>}
TakenExec == HasExec /\ Len(indata) <= Len(hist.argv) - ExecAt

\* C27: every token after -- or --execute, whatever its value (the name of
\* an option or command, the empty string), becomes an argument of execute,
\* in the order given, and is never read as another option
C27_ExecuteTakesAll ==
    TakenExec =>
        /\ indata = <<>>
        /\ output # <<>>
        /\ output[Len(output)].key = hist.argv[ExecAt][1]
        /\ output[Len(output)].args = SubSeq(hist.argv, ExecAt + 1, Len(hist.argv))
        /\ hist.err # "ArgumentUnexpectedError"

----------------------------------------------------------------------------
(* --add-recurse and --quick (C30) *)

\* hosts whose jail has /usr from an earlier run: as it is on the host, and
\* with an older date
EqualDisk ==
    HostDisk @@
    (<<"var", "jailbase", "u", "usr">> :> Dir(493, 0, 8))
OlderDisk ==
    HostDisk @@
    (<<"var", "jailbase", "u", "usr">> :> Dir(493, 0, 2))

QuickMenu ==
    {<< <<"--add-recurse">>, <<"", "usr">> >>,
     << <<"--add-recurse">>, <<"--quick">>, <<"", "usr">> >>,
     << <<"--add-recurse">>, <<"", "bin">> >>,
     << <<"--add-recurse">>, <<"--quick">>, <<"", "bin">> >>,
     << <<"--add">>, <<"", "usr", "lib">> >>}

InitQuick ==
    \E d \in {HostDisk, EqualDisk, OlderDisk} : \E l \in Lines(QuickMenu, MaxCmds) :
        InitWith(<< <<"u">> >> \o Flat(l), d, Host0)

SpecQuick == InitQuick /\ [][Next]_vars

\* the run of an --add-recurse command, whether --quick is among its
\* arguments, and the directories of the disk among them that are not done
RecurseStep == pc = "loop" /\ idx <= Len(output) /\ output[idx].key = "--add-recurse"
QuickGiven(c) == \E i \in 1..Len(c.args) : c.args[i] = <<"--quick">>
SourceDirs(c) ==
    {PhysOf(c.args[i]) : i \in {k \in 1..Len(c.args) : c.args[k] # <<"--quick">>}}
    \cap {q \in DOMAIN disk : disk[q].fmt = "dir" /\ PathOf(q) \notin jail.src_done}

\* the comparison of the source directory q with its counterpart in the jail
Differs(q) ==
    \/ jailhome \o q \notin DOMAIN disk
    \/ cmp(disk[q], disk[jailhome \o q]) # 0
ChildPaths(q) == {PathOf(Append(q, n)) : n \in KChildren(disk, q)}

\* C30: an add with recurse of a source directory, quick being off, calls
\* add on every child name of the directory whether or not the directory
\* and its counterpart in the jail compare equal; with quick on the
\* children are gone through when the comparison shows a difference and
\* only then
C30_RecurseAndQuick ==
    [][RecurseStep /\ ResultOf(hist') = "" =>
          \A q \in SourceDirs(output[idx]) :
              IF QuickGiven(output[idx])
              THEN IF Differs(q) THEN ChildPaths(q) \subseteq jail'.src_done
                   ELSE ChildPaths(q) \cap jail'.src_done \subseteq jail.src_done
              ELSE ChildPaths(q) \subseteq jail'.src_done]_vars

----------------------------------------------------------------------------
(* Symbolic links on the host and in the jail (C31, C32, C34 to C38) *)

\* the jail home of the model's jail u
U == <<"var", "jailbase", "u">>

\* a host with symlinks: /l to a file, /d to nothing, /l2, /r and
\* /usr/lib/up to the directory /usr by an absolute target and by relative
\* targets that go up beyond the root; and a jail home
\* that holds links of an earlier run: lnk and l to files of the host, p to
\* /etc/passwd, a to the link c to /etc, s to the directory b, t to a path
\* that goes through s twice, loop to itself, l2 and r as on the host
LinkDisk ==
    (<<"l">> :> Link(<<"", "f">>)) @@
    (<<"d">> :> Link(<<"", "nowhere">>)) @@
    (<<"l2">> :> Link(<<"", "usr">>)) @@
    (<<"r">> :> Link(<<"..", "..", "..", "usr">>)) @@
    (<<"usr", "lib", "up">> :> Link(<<"..", "..", "..", "usr">>)) @@
    (Append(U, "lnk") :> Link(<<"", "bin", "sh">>)) @@
    (Append(U, "l") :> Link(<<"", "g">>)) @@
    (Append(U, "p") :> Link(<<"", "etc", "passwd">>)) @@
    (Append(U, "a") :> Link(<<"c">>)) @@
    (Append(U, "c") :> Link(<<"", "etc">>)) @@
    (Append(U, "s") :> Link(<<"b">>)) @@
    (Append(U, "t") :> Link(<<"s", "..", "s", "y">>)) @@
    (Append(U, "loop") :> Link(<<"loop">>)) @@
    (Append(U, "l2") :> Link(<<"", "usr">>)) @@
    (Append(U, "r") :> Link(<<"..", "..", "..", "usr">>)) @@
    (U \o <<"b", "y">> :> Dir(493, 0, 8)) @@
    (U \o <<"b", "y", "z">> :> File(420, 0, 4, 8)) @@
    HostDisk

\* the same host when the jail holds the dangling link d of the host
DanglingDisk == (Append(U, "d") :> Link(<<"", "nowhere">>)) @@ LinkDisk

LinkDisks == {LinkDisk, DanglingDisk}

\* the commands on links and on paths that go through links
LinkMenu ==
    {<< <<"--ln-s">>, <<"", "f">>, JH("lnk") >>,
     << <<"--ln-s">>, <<"", "bin", "sh">>, JH("lnk") >>,
     << <<"--ln-s">>, <<"", "f">>, JH("x") >>,
     << <<"--clone">>, <<"", "l">>, JH("lnk") >>,
     << <<"--add">>, <<"", "l">> >>,
     << <<"--add">>, <<"", "d">> >>,
     << <<"--add">>, <<"", "l2", "share">> >>,
     << <<"--add">>, <<"", "r", "share">> >>,
     << <<"--add">>, <<"", "usr", "lib", "up", "share">> >>,
     << <<"--chmod">>, JH("p"), <<"0700">> >>,
     << <<"--chmod">>, JH("e"), <<"0700">> >>,
     << <<"--touch">>, JH("p") >>,
     << <<"--touch">>, <<"{jailhome}", "a", "passwd">> >>,
     << <<"--mkdir">>, <<"{jailhome}", "a", "k">> >>,
     << <<"--touch">>, <<"{jailhome}", "c", "passwd">> >>,
     << <<"--touch">>, <<"{jailhome}", "s", "y">> >>,
     << <<"--touch">>, <<"{jailhome}", "t", "z">> >>,
     << <<"--touch">>, <<"{jailhome}", "loop", "x">> >>,
     << <<"--remove">> >>}

InitLink ==
    \E pre \in {<<>>, << <<"-t">> >>} : \E d \in LinkDisks : \E l \in Lines(LinkMenu, MaxCmds) :
        InitWith(pre \o << <<"u">> >> \o Flat(l), d, Host0)

SpecLink == InitLink /\ [][Next]_vars

\* the run of a command
CmdStep == pc = "loop" /\ idx <= Len(output)

\* the symlink a command asks for: --ln-s by its arguments, --clone and
\* --add by a source that is a symlink on the host
AsksLink(c) ==
    \/ c.key = "--ln-s" /\ Len(c.args) = 2
    \/ Copies(c) /\ SrcOf(c) \in DOMAIN disk /\ disk[SrcOf(c)].fmt = "link"
AskedTarget(c) == IF c.key = "--ln-s" THEN subprops(c.args[1]) ELSE disk[SrcOf(c)].link
AskedPath(c) == IF c.key = "--ln-s" THEN Target(c) ELSE DstOf(c)

\* the jail holds a symlink at the path asked for and it points elsewhere;
\* the cache, where it holds the path, shows that link
PointsElsewhere(c) ==
    /\ AsksLink(c)
    /\ AskedPath(c) \in DOMAIN disk
    /\ disk[AskedPath(c)].fmt = "link"
    /\ disk[AskedPath(c)].link # AskedTarget(c)
    /\ LET id == NodeAt(nodes, 1, AskedPath(c))
       IN  id # NONE => nodes[id].fmt = "link" /\ nodes[id].link = disk[AskedPath(c)].link

\* the cache of ns, where it holds phys, shows the link rec
CacheShowsLink(ns, phys, rec) ==
    LET id == NodeAt(ns, 1, phys)
    IN  id # NONE => /\ ns[id].link = rec.link
                     /\ ns[id].perm = rec.perm
                     /\ ns[id].size = rec.size

\* C31: a symlink asked for by --ln-s, or by --clone or --add of a symlink,
\* at a path where the jail holds a symlink to another target ends with an
\* error and leaves the cached target, mode and size of that link as they
\* were, in test mode as in production mode
C31_SymlinkElsewhereFails ==
    [][(CmdStep /\ PointsElsewhere(output[idx])) =>
          /\ ResultOf(hist') # ""
          /\ CacheShowsLink(nodes', AskedPath(output[idx]), disk[AskedPath(output[idx])])]_vars

\* a symlink of the disk d at phys whose target is not there
Dangles(d, phys) ==
    phys \in DOMAIN d /\ d[phys].fmt = "link" /\ KStat(d, phys).errno # "OK"

\* an --add of one source that is a dangling symlink of the host and was
\* not added before
AddsDangling(c) ==
    /\ c.key = "--add" /\ Len(c.args) = 1
    /\ Dangles(disk, SrcOf(c))
    /\ PathOf(SrcOf(c)) \notin jail.src_done

\* C32: an add of a source symlink whose target is missing on the host ends
\* without error; in production mode, where the jail held a dangling
\* symlink at the place of the source that link is gone afterwards, and
\* otherwise the jail holds a symlink with the target of the source there
C32_AddDanglingLink ==
    [][(CmdStep /\ AddsDangling(output[idx])) =>
          /\ ResultOf(hist') = ""
          /\ ~cfg.test =>
                IF Dangles(disk, DstOf(output[idx]))
                THEN DstOf(output[idx]) \notin DOMAIN disk'
                ELSE /\ DstOf(output[idx]) \in DOMAIN disk'
                     /\ disk'[DstOf(output[idx])].fmt = "link"
                     /\ disk'[DstOf(output[idx])].link = disk[SrcOf(output[idx])].link]_vars

\* the syscalls of the run that changed the disk
Changed == {i \in 1..Len(hist.sys) : hist.sys[i].ok /\ hist.sys[i].path # NoPath}

\* C34: in production mode every syscall that changed the filesystem acted
\* on an entry whose real path, all symlinks resolved, is matched by the
\* write path expression; so for chmod and touch of a jail path that ends
\* in a symlink and for writes below a chain of symlinks
C34_WritesStayInside ==
    ~cfg.test => \A i \in Changed : writepath_match(cfg.writepath, hist.sys[i].real)

\* the nodes of the cache that have children
Parents == {id \in 1..Len(nodes) : DOMAIN nodes[id].children # {}}

\* C35: in the shadow tree only directory nodes have children: no child is
\* attached below a symlink, a regular file or a device, so that no path
\* of a node goes through a symlink; also after lookups through a symlink
\* that points to a symlink
C35_OnlyDirsHaveChildren ==
    \A id \in Parents : nodes[id].fmt = "dir"

\* a command that looks its path up with Stat.get and writes to the node
Looks(c) == c.key \in {"--touch", "--chmod"} /\ Len(c.args) >= 1

\* the reference: the kernel's lstat of the path, symlinks on the way
\* followed, the last name not
Reference(c) == KLstat(disk, Target(c))

\* the paths the step wrote to, or printed as written
WrittenPaths(h, h1) ==
    {h1.sys[i].path : i \in NewSys(h, h1)} \cup {h1.out[i].path : i \in NewOut(h, h1)}

\* C36: a lookup ends with the error of a recursive symlink only when the
\* kernel finds a loop; a path that the kernel's lstat resolves to an
\* entry, also one that goes through the same symlink twice, is resolved
\* by get to a node of that entry (ValueError is also the error of the
\* write policy, raised for an entry outside the write path)
C36_GetResolvesAsLstat ==
    [][(CmdStep /\ Looks(output[idx])) =>
          /\ ResultOf(hist') = "ValueError" =>
                \/ Reference(output[idx]).errno = "ELOOP"
                \/ Outside(output[idx])
                \/ /\ Reference(output[idx]).errno = "OK"
                   /\ ~writepath_match(cfg.writepath, Reference(output[idx]).path)
          /\ (Reference(output[idx]).errno = "OK" /\ ResultOf(hist') = "") =>
                \A q \in WrittenPaths(hist, hist') : KLstat(disk, q) = Reference(output[idx])]_vars

\* the lookups in the jail home that the step made
NewDst(h, h1) == {h1.dst[i] : i \in (Len(h.dst) + 1)..Len(h1.dst)}

\* C37: a lookup by lstat on the node of the jail home, as add makes it,
\* returns that node or a node below it, whatever symlinks are met: an
\* absolute target starts again at the jail home and '..' at the jail home
\* stays there
C37_LookupStaysBelowRoot ==
    [][(CmdStep /\ output[idx].key = "--add") =>
          \A r \in NewDst(hist, hist') : IsPrefix(jailhome, r.at)]_vars

\* a production run that added /l2/share, /r/share or /usr/lib/up/share,
\* found through a link with an absolute target or with a target that goes
\* up beyond the jail home, at /usr/share of the jail
C37_Witness ==
    /\ ~cfg.test /\ pc = "done"
    /\ \E i \in 1..Len(hist.dst) :
          /\ hist.dst[i].src \in {<<"", "l2", "share">>, <<"", "r", "share">>,
                                  <<"", "usr", "lib", "up", "share">>}
          /\ hist.dst[i].at = jailhome \o <<"usr", "share">>
    /\ jailhome \o <<"usr", "share">> \in DOMAIN disk

----------------------------------------------------------------------------
(* Removing the jail (C38) *)

\* the host of LinkDisk with the home of another jail k, a link o to it in
\* the jail home of u, and a private directory of u that holds a link to /usr
RemoveDisk ==
    (<<"var", "jailbase", "k">> :> Dir(493, 0, 8)) @@
    (<<"var", "jailbase", "k", "e">> :> File(420, 0, 4, 8)) @@
    (Append(U, "o") :> Link(<<"", "var", "jailbase", "k">>)) @@
    (<<"tmp", "jailbase">> :> Dir(493, 0, 8)) @@
    (<<"tmp", "jailbase", "u">> :> Dir(493, 0, 8)) @@
    (<<"tmp", "jailbase", "u", "q">> :> Link(<<"", "usr">>)) @@
    LinkDisk

\* a host where the jail home of u is itself a symlink, to the home of k
HomeLinkDisk ==
    (U :> Link(<<"k">>)) @@
    (<<"var", "jailbase", "k">> :> Dir(493, 0, 8)) @@
    (<<"var", "jailbase", "k", "e">> :> File(420, 0, 4, 8)) @@
    [q \in {q \in DOMAIN HostDisk : ~IsPrefix(U, q)} |-> HostDisk[q]]

\* --remove and --clean, after commands that fill the cache through links
RemoveMenu ==
    {<< <<"--remove">> >>,
     << <<"--clean">> >>,
     << <<"--touch">>, <<"{jailhome}", "s", "y">> >>,
     << <<"--touch">>, <<"{jailhome}", "o", "e">> >>,
     << <<"--touch">>, <<"{jailhome}", "a", "passwd">> >>,
     << <<"--add">>, <<"", "l2", "share">> >>}

InitRemove ==
    \E pre \in {<<>>, << <<"-t">> >>} : \E d \in {RemoveDisk, HomeLinkDisk} :
        \E l \in Lines(RemoveMenu, MaxCmds) :
            InitWith(pre \o << <<"u">> >> \o Flat(l), d, Host0)

SpecRemove == InitRemove /\ [][Next]_vars

\* the run of a command that removes with rm_rf
RemoveStep == CmdStep /\ output[idx].key \in {"--remove", "--clean"}

\* at or below the jail home or the private directory, by name
InTrees(q) == IsPrefix(jailhome, q) \/ IsPrefix(jailpriv, q)

\* the symlinks of the disk in those trees
TreeLinks == {q \in DOMAIN disk : InTrees(q) /\ disk[q].fmt = "link"}

\* the entries those symlinks lead to
LinkTargets == {KStat(disk, q).path : q \in {l \in TreeLinks : KStat(disk, l).errno = "OK"}}

\* the lstat calls of the step
NewLst(h, h1) == {h1.lst[i] : i \in (Len(h.lst) + 1)..Len(h1.lst)}

\* C38: rm_rf does not go through a symlink: a symlink at the end of the
\* path given or among the entries met is removed as a link; no entry
\* outside the trees named is removed or changed, none is removed through
\* a path that holds a symlink, and outside the trees no entry at or below
\* the target of one of their symlinks is looked at
C38_RemoveKeepsLinkTargets ==
    [][RemoveStep =>
          /\ \A q \in DOMAIN disk : ~InTrees(q) => q \in DOMAIN disk' /\ disk'[q] = disk[q]
          /\ \A i \in NewSys(hist, hist') :
                hist'.sys[i].call \in {"remove", "rmdir"} =>
                    hist'.sys[i].real = hist'.sys[i].path /\ InTrees(hist'.sys[i].path)
          /\ \A q \in NewLst(hist, hist') : InTrees(q) \/ \A t \in LinkTargets : ~IsPrefix(t, q)
          /\ (~cfg.test /\ ResultOf(hist') = "" /\ output[idx].key = "--remove") =>
                \A q \in TreeLinks : q \notin DOMAIN disk']_vars

\* a production --remove that went through and removed symlinks to
\* directories, among them one to a directory the write path matches, or
\* the jail home that was a symlink itself, the targets being in place
C38_Witness ==
    /\ ~cfg.test /\ pc = "done" /\ Ran >= 1 /\ LastRan.key = "--remove"
    /\ <<"var", "jailbase", "k", "e">> \in DOMAIN disk
    /\ \E i \in 1..Len(hist.sys) :
          /\ hist.sys[i].call = "remove" /\ hist.sys[i].ok
          /\ hist.sys[i].path \in {Append(U, "o"), U}
    /\ U \notin DOMAIN disk

----------------------------------------------------------------------------
(* The identity --execute runs as (C39) *)

\* jails of a user with an account (u, 1000:1000), of a name without one
\* (k), of root, and with a group given; --chuid of the same kinds
IdNames == {"u", "k", "root", "k:u", "u:root", "u:k"}
IdChuids == {"u", "root", "k", "u:root", "root:u", "k:u"}
IdOpts == {<<>>} \cup {<< <<"--chuid">>, <<c>> >> : c \in IdChuids}

InitIds ==
    \E pre \in {<<>>, << <<"-t">> >>} : \E name \in IdNames : \E o \in IdOpts :
    \E a \in {<<>>, << <<"", "bin", "sh">> >>} :
        InitWith(pre \o << <<name>> >> \o o \o << <<"--">> >> \o a, HostDisk, Host0)

SpecIds == InitIds /\ [][Next]_vars

\* the id a step of the command is called with, or that of the invoking
\* user when the command does not enter the step (Stat.setgid and
\* Stat.setuid return at once for an id below 1 or equal to the effective one)
IdAfter(h, h1, call, invoker) ==
    IF \E i \in NewSteps(h, h1) : h1.steps[i].step = call
    THEN h1.steps[CHOOSE i \in NewSteps(h, h1) : h1.steps[i].step = call].arg
    ELSE invoker

\* C39: whatever --chuid, jail name and group are given, a run of --execute
\* calls setgid and setuid only with ids of 1 or more, and once it has got
\* past setgroups (so also when it reaches execve) the gid and uid in
\* effect after setgid and setuid are 1 or more
C39_ExecuteIdsPositive ==
    [][ExecStep =>
          /\ \A i \in NewSteps(hist, hist') :
                hist'.steps[i].step \in {"setgid", "setuid"} => hist'.steps[i].arg >= 1
          /\ Entered(hist, hist') \cap {"setgroups", "execve"} # {} =>
                /\ IdAfter(hist, hist', "setgid", EGid) >= 1
                /\ IdAfter(hist, hist', "setuid", EUid) >= 1]_vars
C39_Witness ==
    /\ pc = "execd" /\ ~cfg.test /\ cfg.exec_chuid = "root:u" /\ cfg.uid = 1000
    /\ \E i \in 1..Len(hist.steps) : hist.steps[i].step = "setgid" /\ hist.steps[i].arg = 1000
    /\ \E i \in 1..Len(hist.steps) : hist.steps[i].step = "setuid" /\ hist.steps[i].arg = 1000
    /\ \E i \in 1..Len(hist.sys) : hist.sys[i].call = "execve"

----------------------------------------------------------------------------
(* Contradictory mount options (C40) *)

\* sources under JAILHOME, in the write path and outside both, each bound
\* with every option string of OptsOf; the hosts of --mount
OptSources == {<<"", "usr">>, <<"", "tmp">>, <<"", "var", "jailbase", "k">>}
InitOpts ==
    \E pre \in {<<>>, << <<"-t">> >>} : \E sp \in OptSources : \E o \in DOMAIN OptsOf :
    \E m \in MountHosts :
        InitWith(pre \o << <<"u">>, <<"--bind">>, sp, <<o>>, <<"--mount">> >>, m.d, m.h)

SpecOpts == InitOpts /\ [][Next]_vars

\* the pairs of options that contradict each other; the place of the last
\* occurrence of an option in a list (0 when it is not there)
Contrary == {<<"ro", "rw">>, <<"exec", "noexec">>}
LastAt(os, o) == IF \E i \in 1..Len(os) : os[i] = o
                 THEN CHOOSE i \in 1..Len(os) : os[i] = o /\ \A j \in (i + 1)..Len(os) : os[j] # o
                 ELSE 0
Exclusive(r) == \A c \in Contrary : ~({c[1], c[2]} \subseteq r)
LastWins(os, r) ==
    \A c \in Contrary : \A a \in {1, 2} :
        LastAt(os, c[a]) > LastAt(os, c[3 - a]) => c[a] \in r /\ c[3 - a] \notin r

\* C40: for every bind-spec, with its source and with no source (the
\* options of a line of /etc/mtab), the set bindopts returns has not both
\* ro and rw and not both exec and noexec, and of contradictory options
\* given the one given last is in the set and the other is not; the same
\* holds for the options every /bin/mount -o is run with
C40_OptionsExclusive ==
    Named =>
        /\ \A k \in 1..Len(cfg.binds) : \A sp \in {abspath(subprops(cfg.binds[k].src)), NoPath} :
              /\ Exclusive(bindopts(sp, cfg.binds[k].opts))
              /\ LastWins(cfg.binds[k].opts, bindopts(sp, cfg.binds[k].opts))
        /\ \A i \in Subs : IsOptCall(hist.sub[i]) => Exclusive(hist.sub[i].args.opts)
C40_Witness ==
    /\ Named /\ pc = "done" /\ ~cfg.test
    /\ \E k \in 1..Len(cfg.binds) : \E i \in Subs :
          /\ cfg.binds[k].opts = <<"rw", "noexec", "ro", "exec">>
          /\ IsOptCall(hist.sub[i]) /\ hist.sub[i].args.dst = BindDst(cfg.binds[k])
          /\ hist.sub[i].args.opts = {"exec", "ro", "nosuid", "remount", "bind", "noatime"}

----------------------------------------------------------------------------
(* nosuid in the options of a bind-spec (C20) *)

\* C20: for every bind-spec the set bindopts computes from its source and
\* its option string contains nosuid and does not contain suid, and so does
\* the option set of the /bin/mount -o run for its mount point
C20_AlwaysNosuid ==
    Named =>
        \A k \in 1..Len(cfg.binds) :
            LET b == cfg.binds[k]
                r == bindopts(abspath(subprops(b.src)), b.opts)
            IN  /\ "nosuid" \in r /\ "suid" \notin r
                /\ OnlyAt(b) =>
                      \A i \in Subs :
                          IsOptCall(hist.sub[i]) /\ hist.sub[i].args.dst = BindDst(b) =>
                              "nosuid" \in hist.sub[i].args.opts /\ "suid" \notin hist.sub[i].args.opts

----------------------------------------------------------------------------
(* rm_rf near the root (C19) *)

\* a host whose environment sets JAILTMP=/tmp, so that {jailpriv} is /tmp/u,
\* a path with two '/'; /tmp/u is a directory with a file, a regular file,
\* a symlink, a device node, or is not there
TmpHost == [Host0 EXCEPT !.jailtmp = <<"tmp">>]
NearRootDisks ==
    {(<<"tmp", "u">> :> Dir(493, 0, 8)) @@ (<<"tmp", "u", "q">> :> File(420, 0, 4, 8)) @@ HostDisk,
     (<<"tmp", "u">> :> File(420, 0, 4, 8)) @@ HostDisk,
     (<<"tmp", "u">> :> Link(<<"", "usr">>)) @@ HostDisk,
     (<<"tmp", "u">> :> Chr(259)) @@ HostDisk,
     HostDisk}
NearRootMenu ==
    {<< <<"--remove">> >>,
     << <<"--clean">> >>,
     << <<"--touch">>, <<"{jailpriv}">> >>,
     << <<"--mkdir">>, <<"{jailhome}", "b">> >>}

InitNearRoot ==
    \E pre \in {<<>>, << <<"-t">> >>} : \E d \in NearRootDisks : \E h \in {TmpHost, Host0} :
    \E l \in Lines(NearRootMenu, MaxCmds) :
        InitWith(pre \o << <<"u">> >> \o Flat(l), d, h)

SpecNearRoot == InitNearRoot /\ [][Next]_vars

\* the entries of the disk whose absolute path has two or fewer '/'
NearRoot == {q \in DOMAIN disk : Len(q) >= 1 /\ Len(q) <= 2}

\* C19: no run of a command that removes with rm_rf (--remove, --clean)
\* removes an entry whose path has two or fewer '/', or prints its
\* removal, whatever the type of the entry; when rm_rf is given such an
\* entry the command ends with an error
C19_NearRootRefused ==
    [][RemoveStep =>
          \A q \in NearRoot :
              /\ q \in DOMAIN disk' /\ disk'[q] = disk[q]
              /\ \A i \in NewSys(hist, hist') :
                    hist'.sys[i].call \in {"remove", "rmdir"} => hist'.sys[i].path # q
              /\ \A i \in NewOut(hist, hist') :
                    hist'.out[i].call \in {"remove", "rmdir"} => hist'.out[i].path # q]_vars

----------------------------------------------------------------------------
(* Cycles of symlinks (C18) *)

\* a jail with cycles of symlinks: a link to itself, two links to each
\* other by relative and by absolute targets, and two links whose targets
\* go through each other
CycleDisk ==
    (Append(U, "loop") :> Link(<<"loop">>)) @@
    (Append(U, "a") :> Link(<<"c">>)) @@
    (Append(U, "c") :> Link(<<"a">>)) @@
    (Append(U, "l") :> Link(<<"", "var", "jailbase", "u", "l2">>)) @@
    (Append(U, "l2") :> Link(<<"", "var", "jailbase", "u", "l">>)) @@
    (Append(U, "s") :> Link(<<"t", "x">>)) @@
    (Append(U, "t") :> Link(<<"s", "x">>)) @@
    (Append(U, "o") :> Link(<<"b">>)) @@
    HostDisk

\* lookups of a path through each cycle and through a link that is no cycle
CycleMenu ==
    {<< <<"--touch">>, <<"{jailhome}", "loop", "x">> >>,
     << <<"--touch">>, <<"{jailhome}", "a", "x">> >>,
     << <<"--chmod">>, <<"{jailhome}", "c", "x">>, <<"0700">> >>,
     << <<"--touch">>, <<"{jailhome}", "l", "x">> >>,
     << <<"--touch">>, <<"{jailhome}", "s", "y">> >>,
     << <<"--chmod">>, <<"{jailhome}", "t", "y">>, <<"0700">> >>,
     << <<"--touch">>, <<"{jailhome}", "o", "x">> >>,
     << <<"--touch">>, <<"{jailhome}", "a">> >>,
     << <<"--try">> >>}

InitCycle ==
    \E pre \in {<<>>, << <<"-t">> >>} : \E l \in Lines(CycleMenu, MaxCmds) :
        InitWith(pre \o << <<"u">> >> \o Flat(l), CycleDisk, Host0)

SpecCycle == InitCycle /\ [][Next]_vars

\* the resolution of the path of the command enters a cycle of symlinks:
\* the kernel gives ELOOP for it
EntersCycle(c) == Looks(c) /\ Reference(c).errno = "ELOOP"

\* C18: a lookup whose resolution enters a cycle of symlinks ends with the
\* error of a recursive symlink (ValueError), whatever the targets of the
\* links are, relative or absolute
C18_CycleGivesSymlinkLoop ==
    [][(CmdStep /\ EntersCycle(output[idx])) => ResultOf(hist') = "ValueError"]_vars

----------------------------------------------------------------------------
(* The shadow tree under creation and removal (C15, C16, C17) *)

\* commands that create an entry of the jail, commands that remove one, and
\* lookups; /var/jailbase/u/b and /var/jailbase/u/e are there from the start
Creators ==
    {<< <<"--mkdir">>, JH("a") >>,
     << <<"--mkdir">>, <<"{jailhome}", "b", "x">> >>,
     << <<"--ln-s">>, <<"", "bin", "sh">>, JH("lnk") >>,
     << <<"--mknod">>, JH("k"), <<"c">>, <<"0">>, <<"0644">> >>,
     << <<"--clone">>, <<"", "g">>, JH("g") >>,
     << <<"--add">>, <<"", "g">> >>}
Removers ==
    {<< <<"--rmdir">>, JH("a") >>,
     << <<"--rmdir">>, <<"{jailhome}", "b", "x">> >>,
     << <<"--rmdir">>, JH("b") >>,
     << <<"--rm">>, JH("lnk") >>,
     << <<"--rm">>, JH("k") >>,
     << <<"--rm">>, JH("g") >>,
     << <<"--rm">>, JH("e") >>,
     << <<"--remove">> >>}
Lookups ==
    {<< <<"--touch">>, JH("e") >>,
     << <<"--touch">>, JH("a") >>}

\* lines of up to two commands, and lines of three that create, remove and
\* then create or look up
TreeLines ==
    Lines(Creators \cup Removers \cup Lookups, 2) \cup
    {l \in Lines(Creators \cup Removers \cup Lookups, MaxLoop) :
        Len(l) = 3 /\ l[1] \in Creators /\ l[2] \in Removers /\ l[3] \in Creators \cup Lookups}

InitTree ==
    \E pre \in {<<>>, << <<"-t">> >>} : \E l \in TreeLines :
        InitWith(pre \o << <<"u">> >> \o Flat(l), HostDisk, Host0)

SpecTree == InitTree /\ [][Next]_vars

\* the nodes of the cache and the nodes in the child map of a node
Ids == 1..Len(nodes)
ChildrenOf(p) == {nodes[p].children[k] : k \in DOMAIN nodes[p].children}

\* C16: every node with a parent is stored in the child map of that parent
\* under its own name, and no node is in the child maps of two nodes
C16_ParentHoldsChild ==
    /\ \A n \in Ids :
          nodes[n].parent # NONE =>
              /\ nodes[n].name \in DOMAIN nodes[nodes[n].parent].children
              /\ nodes[nodes[n].parent].children[nodes[n].name] = n
    /\ \A p, q \in Ids : p # q => ChildrenOf(p) \cap ChildrenOf(q) = {}
\* a node was cleared while it had a child in the cache: the child is
\* without parent and keeps its name
C16_Witness ==
    /\ pc = "done"
    /\ \E n \in Ids \ {1} : nodes[n].parent = NONE /\ nodes[n].name # None
    /\ \E n \in Ids : nodes[n].name = None

\* C17: every entry of the child map of a node is a node whose parent is
\* that node and whose name is the key; so after remove() and rmdir() the
\* former parent has no entry for the name removed
C17_ChildrenBelong ==
    \A p \in Ids : \A k \in DOMAIN nodes[p].children :
        /\ nodes[nodes[p].children[k]].parent = p
        /\ nodes[nodes[p].children[k]].name = k

\* the creator c made its entry in the cache ns (and, in production, on the
\* disk d): the node is there with the format the command gives it, and in
\* production it shows what is on the disk
Made(ns, d, c) ==
    LET id == NodeAt(ns, 1, DstOf(c))
    IN  /\ id # NONE
        /\ Truthy(ns[id])
        /\ ns[id].fmt = (CASE c.key = "--mkdir" -> "dir"
                           [] c.key = "--ln-s" -> "link"
                           [] c.key = "--mknod" -> "chr"
                           [] OTHER -> "file")
        /\ c.key = "--ln-s" => ns[id].link = c.args[1]
        /\ c.key \in {"--clone", "--add"} => ns[id].size = HostDisk[SrcOf(c)].size
        /\ ~cfg.test =>
              /\ DstOf(c) \in DOMAIN d
              /\ \A f \in {"fmt", "perm", "uid", "gid", "size", "link", "rdev"} :
                    ns[id][f] = d[DstOf(c)][f]

\* the remover r took away the entry the creator c made
Removed(c, r) ==
    \/ r.key = "--remove"
    \/ r.key \in {"--rm", "--rmdir"} /\ Target(r) = DstOf(c)

\* the run created an entry and then removed it, both without error
CreatedAndRemoved ==
    /\ Len(output) = 3 /\ Ran = 2 /\ hist.res = <<"", "">>
    /\ output[1].key \in {"--mkdir", "--ln-s", "--mknod", "--clone", "--add"}
    /\ Removed(output[1], output[2])

\* C15: after a path was removed, a lookup of it finds nothing, and the
\* command that created it before, run again, succeeds and gives a node
\* with the format, permission bits, uid, gid, size, symlink target and
\* device number it had before the removal
C15_RemovedThenRecreated ==
    [][(CmdStep /\ CreatedAndRemoved) =>
          LET id == NodeAt(nodes, 1, DstOf(output[1]))
          IN  /\ id = NONE \/ ~Truthy(nodes[id])
              /\ (output[3].key = output[1].key /\ output[3].args = output[1].args) =>
                    /\ ResultOf(hist') = ""
                    /\ Made(nodes', disk', output[1])]_vars

----------------------------------------------------------------------------
(* A command run twice (C14) *)

\* the commands that bring one entry of the jail to a target state; mode 0,
\* regular files, a directory and a device as sources are among them
TwiceMenu ==
    {<< <<"--mkdir">>, JH("a") >>,
     << <<"--mkdir">>, JH("a"), <<"0">> >>,
     << <<"--mkdir">>, JH("a"), <<"0700">> >>,
     << <<"--mkdir">>, JH("b") >>,
     << <<"--mkdir">>, JH("b"), <<"0">> >>,
     << <<"--ln-s">>, <<"", "bin", "sh">>, JH("lnk") >>,
     << <<"--ln-s">>, <<"e">>, JH("lnk") >>,
     << <<"--mknod">>, JH("k"), <<"c">>, <<"0">>, <<"0644">> >>,
     << <<"--mknod">>, JH("k"), <<"c">>, <<"0">> >>,
     << <<"--chmod">>, JH("e"), <<"0700">> >>,
     << <<"--chmod">>, JH("e"), <<"0">> >>,
     << <<"--chmod">>, JH("b"), <<"0">> >>,
     << <<"--chown">>, JH("e"), <<"u">> >>,
     << <<"--touch">>, JH("e") >>,
     << <<"--touch">>, JH("e"), <<"201201010000.05">> >>,
     << <<"--chflags">>, JH("e"), <<"0">> >>,
     << <<"--chflags">>, JH("e"), <<"0644">> >>,
     << <<"--clone">>, <<"", "bin", "sh">>, JH("sh") >>,
     << <<"--clone">>, <<"", "g">>, JH("g") >>,
     << <<"--clone">>, <<"", "f">>, JH("f") >>,
     << <<"--clone">>, <<"", "g">>, JH("e") >>,
     << <<"--clone">>, <<"", "etc">>, JH("etc") >>,
     << <<"--clone">>, <<"", "dev", "null">>, JH("null") >>,
     << <<"--add">>, <<"", "g">> >>,
     << <<"--add">>, <<"", "f">> >>,
     << <<"--add">>, <<"", "bin", "sh">> >>,
     << <<"--add">>, <<"", "etc", "passwd">> >>}

\* each command once, and each command twice in a row
InitTwice ==
    \E pre \in {<<>>, << <<"-t">> >>} : \E c \in TwiceMenu : \E n \in 1..2 :
        InitWith(pre \o << <<"u">> >> \o Flat([i \in 1..n |-> c]), HostDisk, Host0)

SpecTwice == InitTwice /\ [][Next]_vars

\* the command about to run is the one that has just succeeded
SecondRun ==
    /\ CmdStep /\ idx = 2 /\ Ran = 1 /\ hist.res = <<"">>
    /\ output[2].key = output[1].key /\ output[2].args = output[1].args
    /\ output[1].key \in {"--mkdir", "--ln-s", "--mknod", "--chmod", "--chown",
                          "--touch", "--chflags", "--clone", "--add"}

\* C14: a command run again right after it succeeded succeeds, issues no
\* syscall that writes (and plans none in test mode) and leaves every node
\* of the cache as it was
C14_SecondRunIsNoop ==
    [][SecondRun =>
          /\ ResultOf(hist') = ""
          /\ hist'.sys = hist.sys
          /\ hist'.out = hist.out
          /\ nodes' = nodes
          /\ disk' = disk]_vars

----------------------------------------------------------------------------
(* The loader index and examine_system (C33) *)

\* a host with a second executable /bin/x, the loader and a library
LoaderDisk ==
    (<<"bin", "x">> :> File(493, 0, 8, 12)) @@
    (<<"lib">> :> Dir(493, 0, 8)) @@
    (<<"lib", "ld-linux.so">> :> File(493, 0, 8, 8)) @@
    (<<"lib", "liba.so">> :> File(420, 0, 8, 8)) @@
    HostDisk

\* the loader index of 'ldconfig -p': with the loader and a library, with
\* the library only, and empty
LdHost ==
    [Host0 EXCEPT !.ldconfig = <<[name |-> "ld-linux.so", path |-> <<"", "lib", "ld-linux.so">>],
                                 [name |-> "liba.so", path |-> <<"", "lib", "liba.so">>]>>,
                  !.programs = @ \cup {<<"", "lib", "ld-linux.so">>},
                  !.ldlist = (<<"", "bin", "sh">> :> {"liba.so"})]
NoLdHost ==
    [Host0 EXCEPT !.ldconfig = <<[name |-> "liba.so", path |-> <<"", "lib", "liba.so">>]>>]
LoaderHosts == {LdHost, NoLdHost, Host0}

\* adds of two executables, of a library and of a plain file; --try
LoaderMenu ==
    {<< <<"--try">> >>,
     << <<"--add">>, <<"", "bin", "sh">> >>,
     << <<"--add">>, <<"", "bin", "x">> >>,
     << <<"--add">>, <<"", "lib", "liba.so">> >>,
     << <<"--add">>, <<"", "f">> >>}

InitLoader ==
    \E pre \in {<<>>, << <<"-t">> >>} : \E h \in LoaderHosts : \E l \in Lines(LoaderMenu, MaxLoop) :
        InitWith(pre \o << <<"u">> >> \o Flat(l), LoaderDisk, h)

SpecLoader == InitLoader /\ [][Next]_vars

\* the runs of the loader index command so far
IndexRuns == {i \in 1..Len(hist.sub) : hist.sub[i].prog = <<"", "sbin", "ldconfig">>}

\* C33: whatever the loader index holds, with or without an entry of
\* ld-linux, a run examines the system at most once: the index command is
\* run, and its output parsed, no more than once
C33_ExamineOnce ==
    Cardinality(IndexRuns) <= 1 /\ hist.exa <= 1

----------------------------------------------------------------------------
(* The order of the clones of --add (C11) *)

\* a host with an executable, the loader, a library and its alias, links to
\* the directory /usr by an absolute and by relative targets, and a link to
\* a file; with the jail home of an earlier run, and without it
OrderDisk ==
    (<<"lib", "libb.so">> :> Link(<<"liba.so">>)) @@
    (<<"l">> :> Link(<<"", "f">>)) @@
    (<<"l2">> :> Link(<<"", "usr">>)) @@
    (<<"r">> :> Link(<<"..", "..", "..", "usr">>)) @@
    (<<"usr", "lib", "up">> :> Link(<<"..", "..", "..", "usr">>)) @@
    LoaderDisk
FreshDisk == [q \in {q \in DOMAIN OrderDisk : ~IsPrefix(U, q)} |-> OrderDisk[q]]
OrderDisks == {OrderDisk, FreshDisk}

\* adds through symlinked parents, with dependencies, with recursion
OrderMenu ==
    {<< <<"--try">> >>,
     << <<"--add">>, <<"", "bin", "sh">> >>,
     << <<"--add">>, <<"", "lib", "libb.so">> >>,
     << <<"--add">>, <<"", "l">> >>,
     << <<"--add">>, <<"", "l2", "share">> >>,
     << <<"--add">>, <<"", "r", "share", "zoneinfo">> >>,
     << <<"--add">>, <<"", "usr", "lib", "up", "share">> >>,
     << <<"--add">>, <<"", "usr", "share", "zoneinfo">> >>,
     << <<"--add">>, <<"", "m", "x">> >>,
     << <<"--add-recurse">>, <<"", "usr">> >>}

InitOrder ==
    \E pre \in {<<>>, << <<"-t">> >>} : \E d \in OrderDisks : \E h \in {LdHost, Host0} :
        \E l \in Lines(OrderMenu, MaxCmds) :
            InitWith(pre \o << <<"u">> >> \o Flat(l), d, h)

SpecOrder == InitOrder /\ [][Next]_vars

\* the entries the run has made in the jail, in their order: in test mode
\* the planned ones, in production the ones the kernel made
Makes ==
    IF cfg.test
    THEN SelectSeq([i \in 1..Len(hist.out) |-> hist.out[i].path \o <<hist.out[i].call>>],
                   LAMBDA e : Last(e) \in {"mkdir", "symlink", "mknod", "cp"})
    ELSE SelectSeq([i \in 1..Len(hist.sys) |->
                       hist.sys[i].real \o <<IF hist.sys[i].ok THEN hist.sys[i].call ELSE "failed">>],
                   LAMBDA e : Last(e) \in {"mkdir", "symlink", "mknod", "open_wb"})
MadeAt(i) == Front(Makes[i])

\* C11: whenever an add makes an entry of the jail, its parent directory is
\* in the jail tree already: it was made earlier in the run or it is on
\* the disk and was not made by the run
C11_ParentsFirst ==
    \A i \in 1..Len(Makes) :
        (MadeAt(i) # <<>> /\ IsPrefix(U, MadeAt(i)) /\ MadeAt(i) # U) =>
            \/ \E j \in 1..(i - 1) : MadeAt(j) = Front(MadeAt(i))
            \/ /\ Front(MadeAt(i)) \in DOMAIN disk
               /\ \A j \in i..Len(Makes) : MadeAt(j) # Front(MadeAt(i))

\* an add through a symlinked parent made a directory of the jail and then
\* an entry in it
C11_Witness ==
    /\ pc = "done" /\ hist.res = <<"">>
    /\ output[1].key = "--add" /\ output[1].args = << <<"", "l2", "share">> >>
    /\ \E i, j \in 1..Len(Makes) :
          /\ j < i /\ MadeAt(j) = Front(MadeAt(i))
          /\ MadeAt(i) = U \o <<"usr", "share">>

----------------------------------------------------------------------------
(* The dependencies of an executable (C12) *)

\* a host whose loader lists liba.so for /bin/sh and for /bin/x; a jail
\* home of an earlier run, and one that holds a directory where the
\* library goes
DepHost == [LdHost EXCEPT !.ldlist = (<<"", "bin", "x">> :> {"liba.so"}) @@ @]
ClashDisk ==
    (Append(U, "lib") :> Dir(493, 0, 8)) @@
    (U \o <<"lib", "liba.so">> :> Dir(493, 0, 8)) @@
    LoaderDisk
DepDisks == {LoaderDisk, ClashDisk}

\* adds of executables, of the library and of a plain file, removals of
\* what an add has made; --try
DepMenu ==
    {<< <<"--try">> >>,
     << <<"--add">>, <<"", "bin", "sh">> >>,
     << <<"--add">>, <<"", "bin", "x">> >>,
     << <<"--add">>, <<"", "lib", "liba.so">> >>,
     << <<"--add">>, <<"", "f">> >>,
     << <<"--rm">>, <<"{jailhome}", "lib", "liba.so">> >>,
     << <<"--remove">> >>}

InitDeps ==
    \E pre \in {<<>>, << <<"-t">> >>} : \E d \in DepDisks : \E l \in Lines(DepMenu, MaxLoop) :
        InitWith(pre \o << <<"u">> >> \o Flat(l), d, DepHost)

SpecDeps == InitDeps /\ [][Next]_vars

\* what the loader lists for the source sp: each name by the paths the
\* loader index has for it, by itself when the index has none
Listing(sp) ==
    IF sp \notin DOMAIN host.ldlist THEN {}
    ELSE UNION {LET k == {host.ldconfig[i].path :
                             i \in {i \in 1..Len(host.ldconfig) : host.ldconfig[i].name = n}}
                IN  IF k = {} THEN {<<n>>} ELSE k : n \in host.ldlist[sp]}

\* an add of one regular file that is executable or a library
Loadable(c) ==
    /\ Copies(c) /\ c.key = "--add"
    /\ SrcOf(c) \in DOMAIN disk
    /\ disk[SrcOf(c)].fmt = "file"
    /\ (isexecutable(disk[SrcOf(c)]) \/ library_rx_search(c.args[1]))

\* the path p of the host has its counterpart in the jail tree of ns
Counterpart(ns, p) ==
    LET id == NodeAt(ns, 1, jailhome \o PhysOf(p))
    IN  /\ id # NONE
        /\ Truthy(ns[id])
        /\ PhysOf(p) \in DOMAIN disk
        /\ ns[id].fmt = disk[PhysOf(p)].fmt

\* C12: after an add of an executable or library went through, every
\* path the loader lists for it has been added and has its counterpart in
\* the jail tree, with the format of the source
C12_DependenciesAdded ==
    [][(CmdStep /\ Loadable(output[idx]) /\ ResultOf(hist') = "") =>
          \A p \in Listing(output[idx].args[1]) :
              p \in jail'.src_done /\ Counterpart(nodes', p)]_vars

----------------------------------------------------------------------------
(* The aliases of the library directories (C13) *)

\* a host whose library directory /lib holds aliases of liba.so by a
\* relative target, by a target with '..' and by an absolute target, an
\* alias of an alias, a file that is neither executable nor a library, and
\* an alias of it
AliasDisk ==
    (<<"lib", "libb.so">> :> Link(<<"liba.so">>)) @@
    (<<"lib", "libc.so">> :> Link(<<"..", "lib", "liba.so">>)) @@
    (<<"lib", "libd.so">> :> Link(<<"", "lib", "liba.so">>)) @@
    (<<"lib", "libe.so">> :> Link(<<"libb.so">>)) @@
    (<<"lib", "f">> :> File(420, 0, 8, 8)) @@
    (<<"lib", "l">> :> Link(<<"f">>)) @@
    LoaderDisk

AliasMenu ==
    {<< <<"--try">> >>,
     << <<"--add">>, <<"", "lib", "liba.so">> >>,
     << <<"--add">>, <<"", "bin", "sh">> >>,
     << <<"--add">>, <<"", "lib", "libb.so">> >>,
     << <<"--add">>, <<"", "lib", "libd.so">> >>,
     << <<"--add">>, <<"", "lib", "f">> >>,
     << <<"--add">>, <<"", "f">> >>}

InitAlias ==
    \E pre \in {<<>>, << <<"-t">> >>} : \E l \in Lines(AliasMenu, MaxCmds) :
        InitWith(pre \o << <<"u">> >> \o Flat(l), AliasDisk, LdHost)

SpecAlias == InitAlias /\ [][Next]_vars

\* the library directories of the loader index, the symlinks in them and
\* the path a symlink points to
LibDirs == {dirname(host.ldconfig[i].path) : i \in 1..Len(host.ldconfig)}
Aliases == {s \in DOMAIN disk : s # <<>> /\ disk[s].fmt = "link" /\ PathOf(Front(s)) \in LibDirs}
PointsTo(s) == abspath(join(PathOf(Front(s)), disk[s].link))

\* add_path has been called on the path p
Added(p) == p \in jail.src_done

\* C13: in a run whose commands all succeeded, add has been called on
\* every symlink of a library directory whose target add has been called on
C13_AliasesAdded ==
    (\A i \in 1..Ran : hist.res[i] = "") =>
        \A s \in Aliases : Added(PointsTo(s)) => Added(PathOf(s))

============================================================================
